---- MODULE Spec2Model ----
(***************************************************************************)
(* A model of the 7-axis robot arm demo: the kinematics / collision / IK   *)
(* helpers of the top-level control module (src/service-worker.js, the     *)
(* App.tsx part) and the per-frame control loop that drives them.          *)
(*                                                                         *)
(* Numbers.  The program computes in IEEE doubles; the model computes in   *)
(* fixed point, so every value is an integer:                              *)
(*   - an angle is a number of centiradians (hundredths of a radian),      *)
(*     so the joint speeds 0.02..0.05 and the D-pad step 0.02 are whole    *)
(*     numbers and pi is 314;                                              *)
(*   - a length or coordinate is a number of centimetres;                  *)
(*   - a direction cosine, a matrix entry, a sine or a cosine is a number  *)
(*     of 1/One (One stands for 1.0);                                      *)
(*   - an interpolation parameter of the segment distance is a number of   *)
(*     1/Frac, and the distance it yields is in millimetres.               *)
(* sin and cos are tables over the angle grid; acos is the table's         *)
(* inverse.  Every product is rounded back to its scale, as a double       *)
(* operation rounds to its precision.                                      *)
(***************************************************************************)
EXTENDS Integers, Sequences, FiniteSets, TLC

One == 10000
Frac == 1024

\* The only element of a one-element set.  The({e : x \in {v}}) is e with x
\* standing for the value of v: as a local variable of the code, v is
\* computed once, before e, however often e uses it.
The(S) == CHOOSE x \in S : TRUE

Abs(x) == IF x < 0 THEN -x ELSE x
Sign(x) == IF x < 0 THEN -1 ELSE IF x > 0 THEN 1 ELSE 0
Max(a, b) == IF a >= b THEN a ELSE b
Min(a, b) == IF a <= b THEN a ELSE b

\* a / b rounded to the nearest integer, halves away from zero (b > 0)
RDiv(a, b) == Sign(a) * ((2 * Abs(a) + b) \div (2 * b))

\* Math.sqrt, rounded down, for 0 <= n < 2^31 (the root is below 46341 < 215 * 216):
\* first the multiple of 216 below the root, then the root itself
Sqrt(n) ==
  LET coarse == CHOOSE c \in 0..214 : (216 * c) * (216 * c) <= n
                                     /\ (c = 214 \/ (216 * (c + 1)) * (216 * (c + 1)) > n)
  IN CHOOSE r \in (216 * coarse)..Min(216 * coarse + 215, 46340) :
       r * r <= n /\ (r = 46340 \/ (r + 1) * (r + 1) > n)

\* n / d in 1/Frac, rounded down, for n >= 0 and 0 < d < 2^26: two steps of long
\* division in base 32
FracDiv(n, d) ==
  LET r1 == (n % d) * 32
      r2 == (r1 % d) * 32
  IN (n \div d) * Frac + (r1 \div d) * 32 + (r2 \div d)

\* Math.sin and Math.cos on the angle grid: entry k + 1 is round(One * f(k / 100))
SinTable ==
  <<
    0, 100, 200, 300, 400, 500, 600, 699, 799, 899, 998, 1098,
    1197, 1296, 1395, 1494, 1593, 1692, 1790, 1889, 1987, 2085, 2182, 2280,
    2377, 2474, 2571, 2667, 2764, 2860, 2955, 3051, 3146, 3240, 3335, 3429,
    3523, 3616, 3709, 3802, 3894, 3986, 4078, 4169, 4259, 4350, 4439, 4529,
    4618, 4706, 4794, 4882, 4969, 5055, 5141, 5227, 5312, 5396, 5480, 5564,
    5646, 5729, 5810, 5891, 5972, 6052, 6131, 6210, 6288, 6365, 6442, 6518,
    6594, 6669, 6743, 6816, 6889, 6961, 7033, 7104, 7174, 7243, 7311, 7379,
    7446, 7513, 7578, 7643, 7707, 7771, 7833, 7895, 7956, 8016, 8076, 8134,
    8192, 8249, 8305, 8360, 8415, 8468, 8521, 8573, 8624, 8674, 8724, 8772,
    8820, 8866, 8912, 8957, 9001, 9044, 9086, 9128, 9168, 9208, 9246, 9284,
    9320, 9356, 9391, 9425, 9458, 9490, 9521, 9551, 9580, 9608, 9636, 9662,
    9687, 9711, 9735, 9757, 9779, 9799, 9819, 9837, 9854, 9871, 9887, 9901,
    9915, 9927, 9939, 9949, 9959, 9967, 9975, 9982, 9987, 9992, 9995, 9998,
    9999, 10000, 10000, 9998, 9996, 9992, 9988, 9982, 9976, 9969, 9960, 9951,
    9940, 9929, 9917, 9903, 9889, 9874, 9857, 9840, 9822, 9802, 9782, 9761,
    9738, 9715, 9691, 9666, 9640, 9613, 9585, 9556, 9526, 9495, 9463, 9430,
    9396, 9362, 9326, 9290, 9252, 9214, 9174, 9134, 9093, 9051, 9008, 8964,
    8919, 8874, 8827, 8780, 8731, 8682, 8632, 8581, 8529, 8477, 8423, 8369,
    8314, 8258, 8201, 8143, 8085, 8026, 7966, 7905, 7843, 7781, 7718, 7654,
    7589, 7523, 7457, 7390, 7322, 7254, 7185, 7115, 7044, 6973, 6901, 6828,
    6755, 6681, 6606, 6530, 6454, 6378, 6300, 6222, 6144, 6065, 5985, 5904,
    5823, 5742, 5660, 5577, 5494, 5410, 5325, 5240, 5155, 5069, 4983, 4896,
    4808, 4720, 4632, 4543, 4454, 4364, 4274, 4183, 4092, 4001, 3909, 3817,
    3724, 3631, 3538, 3444, 3350, 3255, 3161, 3066, 2970, 2875, 2779, 2683,
    2586, 2489, 2392, 2295, 2198, 2100, 2002, 1904, 1806, 1708, 1609, 1510,
    1411, 1312, 1213, 1114, 1014, 915, 815, 715, 616, 516, 416, 316,
    216, 116, 16, -84, -184, -284, -384, -484, -584, -684, -783, -883,
    -982, -1082, -1181, -1281, -1380, -1479, -1577, -1676, -1775, -1873, -1971, -2069,
    -2167, -2264, -2362, -2459, -2555, -2652, -2748, -2844, -2940, -3035, -3131, -3225,
    -3320, -3414, -3508, -3601, -3694, -3787, -3880, -3971, -4063, -4154, -4245, -4335,
    -4425, -4515, -4604, -4692, -4780, -4868, -4955, -5042, -5128, -5213, -5298, -5383,
    -5467, -5550, -5633, -5716, -5797, -5879, -5959, -6039, -6119, -6197, -6276, -6353,
    -6430, -6506, -6582, -6657, -6731, -6805, -6878, -6950, -7021, -7092, -7162, -7232,
    -7301, -7369, -7436, -7502, -7568, -7633, -7697, -7761, -7823, -7885, -7946, -8007,
    -8066, -8125, -8183, -8240, -8296, -8352, -8406, -8460, -8513, -8565, -8616, -8666,
    -8716, -8764, -8812, -8859, -8905, -8950, -8994, -9037, -9080, -9121, -9162, -9201,
    -9240, -9278, -9315, -9351, -9386, -9420, -9453, -9485, -9516, -9546, -9576, -9604,
    -9631, -9658, -9683, -9708, -9731, -9754, -9775, -9796, -9816, -9834, -9852, -9868,
    -9884, -9899, -9912, -9925, -9937, -9948, -9957, -9966, -9974, -9981, -9986, -9991,
    -9995, -9997, -9999, -10000, -10000, -9998, -9996, -9993, -9989, -9983, -9977, -9970,
    -9962, -9952, -9942, -9931, -9919, -9905, -9891, -9876, -9860, -9843, -9825, -9805,
    -9785, -9764, -9742, -9719, -9695, -9670, -9644, -9617, -9589, -9560, -9531, -9500,
    -9468, -9435, -9402, -9367, -9332, -9295, -9258, -9220, -9181, -9141, -9100, -9058,
    -9015, -8971, -8926, -8881, -8835, -8787, -8739, -8690, -8640, -8589, -8538, -8485,
    -8432, -8378, -8323, -8267, -8210, -8153, -8094, -8035, -7975, -7915, -7853, -7791,
    -7728, -7664, -7599, -7534, -7468, -7401, -7333, -7265, -7196, -7126, -7055, -6984,
    -6912, -6840, -6766, -6692, -6618, -6542, -6467, -6390, -6313, -6235, -6156, -6077,
    -5997, -5917, -5836, -5755, -5673, -5590, -5507, -5423, -5339, -5254, -5169, -5083,
    -4996, -4910, -4822, -4734, -4646, -4557, -4468, -4378, -4288, -4198, -4107, -4015,
    -3924, -3831, -3739, -3646, -3553, -3459, -3365, -3271, -3176, -3081, -2986, -2890,
    -2794, -2698, -2602, -2505, -2408, -2311, -2213, -2116, -2018, -1920, -1822, -1723,
    -1625, -1526, -1427, -1328, -1229, -1129, -1030, -931, -831, -731, -631, -532,
    -432, -332, -232, -132, -32, 68, 168, 268, 368, 468, 568, 668,
    767, 867, 967, 1066, 1165 >>

CosTable ==
  <<
    10000, 10000, 9998, 9996, 9992, 9988, 9982, 9976, 9968, 9960, 9950, 9940,
    9928, 9916, 9902, 9888, 9872, 9856, 9838, 9820, 9801, 9780, 9759, 9737,
    9713, 9689, 9664, 9638, 9611, 9582, 9553, 9523, 9492, 9460, 9428, 9394,
    9359, 9323, 9287, 9249, 9211, 9171, 9131, 9090, 9048, 9004, 8961, 8916,
    8870, 8823, 8776, 8727, 8678, 8628, 8577, 8525, 8473, 8419, 8365, 8309,
    8253, 8196, 8139, 8080, 8021, 7961, 7900, 7838, 7776, 7712, 7648, 7584,
    7518, 7452, 7385, 7317, 7248, 7179, 7109, 7038, 6967, 6895, 6822, 6749,
    6675, 6600, 6524, 6448, 6372, 6294, 6216, 6137, 6058, 5978, 5898, 5817,
    5735, 5653, 5570, 5487, 5403, 5319, 5234, 5148, 5062, 4976, 4889, 4801,
    4713, 4625, 4536, 4447, 4357, 4267, 4176, 4085, 3993, 3902, 3809, 3717,
    3624, 3530, 3436, 3342, 3248, 3153, 3058, 2963, 2867, 2771, 2675, 2579,
    2482, 2385, 2288, 2190, 2092, 1994, 1896, 1798, 1700, 1601, 1502, 1403,
    1304, 1205, 1106, 1006, 907, 807, 707, 608, 508, 408, 308, 208,
    108, 8, -92, -192, -292, -392, -492, -592, -691, -791, -891, -990,
    -1090, -1189, -1288, -1388, -1487, -1585, -1684, -1782, -1881, -1979, -2077, -2175,
    -2272, -2369, -2466, -2563, -2660, -2756, -2852, -2948, -3043, -3138, -3233, -3327,
    -3421, -3515, -3609, -3702, -3795, -3887, -3979, -4070, -4161, -4252, -4342, -4432,
    -4522, -4611, -4699, -4787, -4875, -4962, -5048, -5135, -5220, -5305, -5390, -5474,
    -5557, -5640, -5722, -5804, -5885, -5966, -6046, -6125, -6204, -6282, -6359, -6436,
    -6512, -6588, -6663, -6737, -6811, -6883, -6956, -7027, -7098, -7168, -7237, -7306,
    -7374, -7441, -7508, -7573, -7638, -7702, -7766, -7828, -7890, -7951, -8011, -8071,
    -8130, -8187, -8244, -8301, -8356, -8410, -8464, -8517, -8569, -8620, -8670, -8720,
    -8768, -8816, -8863, -8908, -8953, -8998, -9041, -9083, -9124, -9165, -9204, -9243,
    -9281, -9318, -9353, -9388, -9422, -9455, -9487, -9518, -9549, -9578, -9606, -9633,
    -9660, -9685, -9710, -9733, -9755, -9777, -9797, -9817, -9836, -9853, -9870, -9885,
    -9900, -9914, -9926, -9938, -9948, -9958, -9967, -9974, -9981, -9987, -9991, -9995,
    -9998, -9999, -10000, -10000, -9998, -9996, -9993, -9988, -9983, -9977, -9969, -9961,
    -9952, -9941, -9930, -9918, -9904, -9890, -9875, -9859, -9841, -9823, -9804, -9784,
    -9762, -9740, -9717, -9693, -9668, -9642, -9615, -9587, -9558, -9528, -9497, -9466,
    -9433, -9399, -9365, -9329, -9293, -9255, -9217, -9178, -9137, -9096, -9054, -9011,
    -8968, -8923, -8877, -8831, -8783, -8735, -8686, -8636, -8585, -8534, -8481, -8428,
    -8373, -8318, -8262, -8206, -8148, -8090, -8030, -7970, -7910, -7848, -7786, -7723,
    -7659, -7594, -7529, -7462, -7395, -7328, -7259, -7190, -7120, -7050, -6978, -6907,
    -6834, -6761, -6686, -6612, -6536, -6460, -6384, -6306, -6229, -6150, -6071, -5991,
    -5911, -5830, -5748, -5666, -5583, -5500, -5416, -5332, -5247, -5162, -5076, -4990,
    -4903, -4815, -4727, -4639, -4550, -4461, -4371, -4281, -4190, -4099, -4008, -3916,
    -3824, -3731, -3638, -3545, -3451, -3357, -3263, -3168, -3073, -2978, -2882, -2787,
    -2690, -2594, -2497, -2400, -2303, -2206, -2108, -2010, -1912, -1814, -1715, -1617,
    -1518, -1419, -1320, -1221, -1122, -1022, -923, -823, -723, -623, -524, -424,
    -324, -224, -124, -24, 76, 176, 276, 376, 476, 576, 676, 775,
    875, 975, 1074, 1173, 1273, 1372, 1471, 1570, 1668, 1767, 1865, 1963,
    2061, 2159, 2257, 2354, 2451, 2548, 2644, 2741, 2837, 2932, 3028, 3123,
    3218, 3312, 3407, 3500, 3594, 3687, 3780, 3872, 3964, 4056, 4147, 4238,
    4328, 4418, 4508, 4597, 4685, 4773, 4861, 4948, 5035, 5121, 5206, 5292,
    5376, 5460, 5544, 5627, 5709, 5791, 5872, 5953, 6033, 6112, 6191, 6269,
    6347, 6424, 6500, 6576, 6651, 6725, 6799, 6872, 6944, 7016, 7087, 7157,
    7226, 7295, 7363, 7430, 7497, 7563, 7628, 7692, 7756, 7818, 7880, 7942,
    8002, 8061, 8120, 8178, 8235, 8292, 8347, 8402, 8456, 8509, 8561, 8612,
    8662, 8712, 8761, 8808, 8855, 8901, 8946, 8991, 9034, 9076, 9118, 9158,
    9198, 9237, 9275, 9312, 9348, 9383, 9417, 9450, 9482, 9514, 9544, 9573,
    9602, 9629, 9656, 9681, 9706, 9729, 9752, 9774, 9794, 9814, 9833, 9850,
    9867, 9883, 9898, 9911, 9924, 9936, 9947, 9957, 9965, 9973, 9980, 9986,
    9991, 9994, 9997, 9999, 10000, 10000, 9999, 9996, 9993, 9989, 9984, 9978,
    9971, 9962, 9953, 9943, 9932 >>

Sin(a) == Sign(a) * SinTable[Abs(a) + 1]
Cos(a) == CosTable[Abs(a) + 1]

\* Math.acos of c / One (|c| <= One), on the angle grid 0..Pi: the angle whose
\* cosine is nearest c; the cosine falls from One at 0 to -One at Pi
Pi == 314
Acos(c) ==
  LET k == CHOOSE j \in 0..Pi : CosTable[j + 1] <= c /\ (j = 0 \/ CosTable[j] > c)
  IN IF k > 0 /\ (CosTable[k] - c) < (c - CosTable[k + 1]) THEN k - 1 ELSE k

(***************************************************************************)
(* three.js Vector3 and Matrix4, as far as the program uses them.  A       *)
(* vector is <<x, y, z>>.  A Matrix4 is always a rigid transform here: r   *)
(* is its 3x3 rotation block (rows, entries in 1/One) and p its            *)
(* translation column (centimetres).                                      *)
(***************************************************************************)
Vec(x, y, z) == <<x, y, z>>
subVectors(a, b) == <<a[1] - b[1], a[2] - b[2], a[3] - b[3]>>
addVectors(a, b) == <<a[1] + b[1], a[2] + b[2], a[3] + b[3]>>
dotRaw(a, b) == a[1] * b[1] + a[2] * b[2] + a[3] * b[3]
\* dot product of two vectors in 1/One, in 1/One
dot(a, b) == RDiv(dotRaw(a, b), One)
\* v times the scalar s / One
multiplyScalar(v, s) == <<RDiv(v[1] * s, One), RDiv(v[2] * s, One), RDiv(v[3] * s, One)>>
crossVectors(a, b) ==
  << RDiv(a[2] * b[3] - a[3] * b[2], One),
     RDiv(a[3] * b[1] - a[1] * b[3], One),
     RDiv(a[1] * b[2] - a[2] * b[1], One) >>

\* Vector3.normalize of a vector of centimetres: the unit vector in 1/One
\* (divideScalar(length() || 1): the zero vector stays zero).  The length is
\* taken in millimetres.
normalizeLen(v) ==
  LET len == Sqrt(dotRaw(v, v) * 100)
  IN IF len = 0 THEN <<0, 0, 0>>
     ELSE << RDiv(v[1] * One * 10, len), RDiv(v[2] * One * 10, len),
             RDiv(v[3] * One * 10, len) >>

\* Vector3.normalize of a vector in 1/One
normalize(v) ==
  LET len == Sqrt(dotRaw(v, v))
  IN IF len = 0 THEN <<0, 0, 0>>
     ELSE <<RDiv(v[1] * One, len), RDiv(v[2] * One, len), RDiv(v[3] * One, len)>>

\* a.distanceTo(b) < t, for points in centimetres
distanceToBelow(a, b, t) ==
  LET d == subVectors(a, b) IN dotRaw(d, d) < t * t

Identity3 == << <<One, 0, 0>>, <<0, One, 0>>, <<0, 0, One>> >>
\* new Matrix4()
NewMatrix4 == [r |-> Identity3, p |-> <<0, 0, 0>>]
makeTranslation(v) == [r |-> Identity3, p |-> v]
makeRotationX(a) ==
  [r |-> << <<One, 0, 0>>, <<0, Cos(a), -Sin(a)>>, <<0, Sin(a), Cos(a)>> >>,
   p |-> <<0, 0, 0>>]
makeRotationY(a) ==
  [r |-> << <<Cos(a), 0, Sin(a)>>, <<0, One, 0>>, <<-Sin(a), 0, Cos(a)>> >>,
   p |-> <<0, 0, 0>>]
makeRotationZ(a) ==
  [r |-> << <<Cos(a), -Sin(a), 0>>, <<Sin(a), Cos(a), 0>>, <<0, 0, One>> >>,
   p |-> <<0, 0, 0>>]

\* row i of a times column j of b, in 1/One
rowByColumn(a, b, i, j) ==
  RDiv(a.r[i][1] * b.r[1][j] + a.r[i][2] * b.r[2][j] + a.r[i][3] * b.r[3][j], One)
\* row i of a applied to the vector v (any unit), in v's unit
rowByVector(a, v, i) == RDiv(a.r[i][1] * v[1] + a.r[i][2] * v[2] + a.r[i][3] * v[3], One)

\* Matrix4.multiply: a := a * b
multiply(a, b) ==
  [r |-> << <<rowByColumn(a, b, 1, 1), rowByColumn(a, b, 1, 2), rowByColumn(a, b, 1, 3)>>,
            <<rowByColumn(a, b, 2, 1), rowByColumn(a, b, 2, 2), rowByColumn(a, b, 2, 3)>>,
            <<rowByColumn(a, b, 3, 1), rowByColumn(a, b, 3, 2), rowByColumn(a, b, 3, 3)>> >>,
   p |-> << a.p[1] + rowByVector(a, b.p, 1),
            a.p[2] + rowByVector(a, b.p, 2),
            a.p[3] + rowByVector(a, b.p, 3) >>]

\* Vector3.setFromMatrixPosition
setFromMatrixPosition(m) == m.p

\* Vector3.transformDirection: the rotation block applied to v, normalized
transformDirection(v, m) ==
  normalize(<<rowByVector(m, v, 1), rowByVector(m, v, 2), rowByVector(m, v, 3)>>)

(***************************************************************************)
(* The chain: joint axes, bone offsets, forward kinematics.                *)
(***************************************************************************)
\* axes with the wrist roll J7 about X instead of Z
JOINT_AXES_RollAboutX ==
  << <<0, 1, 0>>, <<1, 0, 0>>, <<0, 1, 0>>, <<0, 1, 0>>, <<0, 1, 0>>, <<1, 0, 0>>, <<1, 0, 0>> >>

\* Axes of rotation for each joint (J1..J7), as 0/1 component flags
JOINT_AXES ==
  << <<0, 1, 0>>, <<1, 0, 0>>, <<0, 1, 0>>, <<0, 1, 0>>, <<0, 1, 0>>, <<1, 0, 0>>, <<0, 0, 1>> >>

\* bone offsets that all point up
getBoneOffsetsUp(dims) ==
  << <<0, dims[1], 0>>, <<0, dims[2], 0>>, <<0, dims[3], 0>>, <<0, dims[4], 0>>,
     <<0, dims[5], 0>>, <<0, dims[6], 0>>, <<0, dims[7], 0>>, <<0, dims[8], 0>> >>

\* dims is <<baseHeight, j1j2, j2j3, j3j4, j4j5, j5j6, j6j7, j7tip>>
getBoneOffsets(dims) ==
  << <<0, dims[1], 0>>, <<0, dims[2], 0>>, <<0, 0, dims[3]>>, <<0, 0, dims[4]>>,
     <<0, 0, dims[5]>>, <<0, 0, dims[6]>>, <<0, 0, dims[7]>>, <<0, 0, dims[8]>> >>

\* the rotation matrix of joint j (1..7) at the angle a
jointRotation(j, a) ==
  IF JOINT_AXES[j][1] = 1 THEN makeRotationX(a)
  ELSE IF JOINT_AXES[j][2] = 1 THEN makeRotationY(a)
  ELSE makeRotationZ(a)

\* One turn of the chain loop: currentMatrix after joint i (0-based) has been
\* rotated by its angle and the offset to the next joint applied
jointStep(m, angles, boneOffsets, i) ==
  multiply(multiply(m, jointRotation(i + 1, angles[i + 1])),
           makeTranslation(boneOffsets[i + 2]))

\* the turns i, i + 1, .., n - 1 of the chain loop from currentMatrix = m:
\* currentMatrix after each of them
RECURSIVE chainLoop(_, _, _, _, _)
chainLoop(m, angles, boneOffsets, i, n) ==
  IF i >= n THEN <<>>
  ELSE The({ <<next>> \o chainLoop(next, angles, boneOffsets, i + 1, n) :
             next \in {jointStep(m, angles, boneOffsets, i)} })

\* currentMatrix once the base offset is applied (element 1) and after each of
\* the first n turns of the chain loop (elements 2..n + 1)
chainMatrices(angles, dims, n) ==
  The({ <<base>> \o chainLoop(base, angles, getBoneOffsets(dims), 0, n) :
        base \in {multiply(NewMatrix4, makeTranslation(getBoneOffsets(dims)[1]))} })

\* jointPositions: the position of each matrix from the k-th on
RECURSIVE positionsFrom(_, _)
positionsFrom(ms, k) ==
  IF k > Len(ms) THEN <<>>
  ELSE <<setFromMatrixPosition(ms[k])>> \o positionsFrom(ms, k + 1)

\* forward kinematics whose loop stops one joint early
computeFKShort(angles, dims) ==
  The({ positionsFrom(ms, 1) : ms \in {chainMatrices(angles, dims, 6)} })

\* Forward kinematics: the 8 positions J1..J7, tip
computeFK(angles, dims) ==
  The({ positionsFrom(ms, 1) : ms \in {chainMatrices(angles, dims, 7)} })

(***************************************************************************)
(* Collision: segment-to-segment distance and the self-collision check.    *)
(***************************************************************************)
COLLISION_WARNING_THRESHOLD == 150   \* 0.15 m, in millimetres
FLOOR_LIMIT == 0
FloorBuffer == 5                     \* 0.05 m, in centimetres
Eps4 == 100                          \* 1e-6 m^4, in cm^4

\* Math.abs(x) < 1e-6 for x in cm^4 (four) or in cm^2 or a plain number (not four):
\* 1e-6 m^2 is 1/100 cm^2
belowEps(x, four) == IF four THEN Abs(x) < Eps4 ELSE Abs(x) * 100 < 1

\* sN, sD, tN, tD after the branch on D.  They are carried with their unit:
\* s4 (t4) says that sN, sD (tN, tD) are in cm^4 rather than cm^2.
firstClamp(a, b, c, d, e, D) ==
  IF D < Eps4
  THEN [sN |-> 0, sD |-> 1, tN |-> e, tD |-> c, s4 |-> FALSE, t4 |-> FALSE]
  ELSE IF b * e - c * d < 0
  THEN [sN |-> 0, sD |-> D, tN |-> e, tD |-> c, s4 |-> TRUE, t4 |-> FALSE]
  ELSE IF b * e - c * d > D
  THEN [sN |-> D, sD |-> D, tN |-> e + b, tD |-> c, s4 |-> TRUE, t4 |-> FALSE]
  ELSE [sN |-> b * e - c * d, sD |-> D, tN |-> a * e - b * d, tD |-> D,
        s4 |-> TRUE, t4 |-> TRUE]

\* the branch on tN without its else if (tN > tD)
secondClampBelowOnly(first, a, b, d) ==
  IF first.tN < 0
  THEN IF -d < 0 THEN [first EXCEPT !.tN = 0, !.sN = 0]
       ELSE IF -d > a THEN [first EXCEPT !.tN = 0, !.sN = first.sD]
       ELSE [first EXCEPT !.tN = 0, !.sN = -d, !.sD = a, !.s4 = FALSE]
  ELSE first

\* sN, sD, tN, tD after the branch on tN
secondClamp(first, a, b, d) ==
  IF first.tN < 0
  THEN IF -d < 0 THEN [first EXCEPT !.tN = 0, !.sN = 0]
       ELSE IF -d > a THEN [first EXCEPT !.tN = 0, !.sN = first.sD]
       ELSE [first EXCEPT !.tN = 0, !.sN = -d, !.sD = a, !.s4 = FALSE]
  ELSE IF first.tN > first.tD
  THEN IF (-d + b) < 0 THEN [first EXCEPT !.tN = first.tD, !.sN = 0]
       ELSE IF (-d + b) > a THEN [first EXCEPT !.tN = first.tD, !.sN = first.sD]
       ELSE [first EXCEPT !.tN = first.tD, !.sN = -d + b, !.sD = a, !.s4 = FALSE]
  ELSE first

\* sc (tc): 0 for a numerator below 1e-6, else numerator / denominator, in 1/Frac
ratio(N, D, four) == IF belowEps(N, four) THEN 0 ELSE FracDiv(N, D)

\* the length of dP = w + u * sc - v * tc, in millimetres rounded down
separation(u, v, w, sc, tc) ==
  The({ Sqrt(dotRaw(dP, dP)) :
        dP \in {<<RDiv((w[1] * Frac + u[1] * sc - v[1] * tc) * 10, Frac),
                  RDiv((w[2] * Frac + u[2] * sc - v[2] * tc) * 10, Frac),
                  RDiv((w[3] * Frac + u[3] * sc - v[3] * tc) * 10, Frac)>>} })

\* sN, sD, tN, tD as the two branches leave them, from the products a..e
clampedParameters(a, b, c, d, e) ==
  secondClamp(firstClamp(a, b, c, d, e, a * c - b * b), a, b, d)

\* the distance of the segments with directions u and v, w apart at their
\* starts, from the products a..e
closestApproach(u, v, w, a, b, c, d, e) ==
  The({ separation(u, v, w, ratio(second.sN, second.sD, second.s4),
                   ratio(second.tN, second.tD, second.t4)) :
        second \in {clampedParameters(a, b, c, d, e)} })

\* Shortest distance between two line segments P1-Q1 and P2-Q2 (centimetres), in
\* millimetres rounded down
distSegmentToSegment(p1, q1, p2, q2) ==
  The({ closestApproach(u, v, w, dotRaw(u, u), dotRaw(u, v), dotRaw(v, v),
                        dotRaw(u, w), dotRaw(v, w)) :
        u \in {subVectors(q1, p1)}, v \in {subVectors(q2, p2)},
        w \in {subVectors(p1, p2)} })

\* the segments: origin -> positions[0], then positions[i] -> positions[i+1]
segmentsOf(positions) ==
  << [p1 |-> <<0, 0, 0>>, p2 |-> positions[1]],
     [p1 |-> positions[1], p2 |-> positions[2]],
     [p1 |-> positions[2], p2 |-> positions[3]],
     [p1 |-> positions[3], p2 |-> positions[4]],
     [p1 |-> positions[4], p2 |-> positions[5]],
     [p1 |-> positions[5], p2 |-> positions[6]],
     [p1 |-> positions[6], p2 |-> positions[7]],
     [p1 |-> positions[7], p2 |-> positions[8]] >>

\* a check that compares adjacent links too
innerStartAdjacent(i) == i + 1
\* the first j of the inner check loop for the segment i: adjacent links are skipped
innerStart(i) == i + 2

\* the verdict of the check loops from the pair (i, j) on (0-based, as in the code)
RECURSIVE checkLoops(_, _, _)
checkLoops(segments, i, j) ==
  IF i >= Len(segments) THEN FALSE
  ELSE IF j >= Len(segments) THEN checkLoops(segments, i + 1, innerStart(i + 1))
  ELSE IF distSegmentToSegment(segments[i + 1].p1, segments[i + 1].p2,
                               segments[j + 1].p1, segments[j + 1].p2)
            < COLLISION_WARNING_THRESHOLD
       THEN TRUE
       ELSE checkLoops(segments, i, j + 1)

\* 1. Floor Check: the first loop of checkSelfCollision
floorCheck(positions) ==
  \E k \in 1..Len(positions) : positions[k][2] < FLOOR_LIMIT + FloorBuffer

checkSelfCollision(positions) ==
  IF floorCheck(positions) THEN TRUE
  ELSE checkLoops(segmentsOf(positions), 0, innerStart(0))

(***************************************************************************)
(* The CCD IK solver.                                                      *)
(***************************************************************************)
threshold == 1        \* 0.01 m, in centimetres
\* one outer iteration more
maxIterationsMore == 5 + 1
maxIterations == 5
\* a backward pass that begins at the wrist roll J7
sweepStartAtRoll == 5 + 1
sweepStart == 5       \* the backward pass runs from J6 (index 5) down to J1
SkipEps == 1          \* 0.0001, in 1/One

\* Math.max(lo, Math.min(hi, x))
clamp(x, lo, hi) == Max(lo, Min(hi, x))

\* no limits applied
limitAngleNone(a, config) == a
\* Apply Limits: the angle a held to the range of config
limitAngle(a, config) == clamp(a, config.min, config.max)

\* no early exit
reachedNever(endEffectorPos, targetPos) == FALSE
\* endEffectorPos.distanceTo(targetPos) < threshold
reached(endEffectorPos, targetPos) == distanceToBelow(endEffectorPos, targetPos, threshold)

\* JOINT_AXES[j] as a direction in 1/One
axisVector(j) == <<One * JOINT_AXES[j][1], One * JOINT_AXES[j][2], One * JOINT_AXES[j][3]>>

\* rotAngle *= -0.5: the damped turn made the wrong way round
dampReversed(rotAngle) == -RDiv(rotAngle, 2)
\* rotAngle *= 0.5, on the angle grid
damp(rotAngle) == RDiv(rotAngle, 2)

\* the end effector kept as it was at the start of the pass
copyEndEffectorNone(positions, updatedPos) == positions
\* endEffectorPos.copy(updatedPos[7]): endEffectorPos is the object positions[7]
copyEndEffector(positions, updatedPos) == [positions EXCEPT ![8] = updatedPos[8]]

\* Calculate Axis in World Space: the axis of joint i (0-based) under the
\* transforms of the joints before it
worldAxisOf(newAngles, dims, i) ==
  The({ normalize(transformDirection(axisVector(i + 1), tempMatrix)) :
        tempMatrix \in {chainMatrices(newAngles, dims, i)[i + 1]} })

\* Project v onto the plane perpendicular to the rotation axis
project(v, worldAxis) ==
  normalize(subVectors(v, multiplyScalar(worldAxis, dot(v, worldAxis))))

\* rotAngle: the angle from vE_proj to vT_proj about worldAxis, damped
rotAngleOf(vE_proj, vT_proj, worldAxis) ==
  The({ damp(IF dot(crossVectors(vE_proj, vT_proj), worldAxis) < 0
             THEN -acosAngle ELSE acosAngle) :
        acosAngle \in {Acos(clamp(dot(vE_proj, vT_proj), -One, One))} })

\* the update of joint i (0-based) about worldAxis: newAngles[i] moved and
\* limited, the end effector recalculated
ikTurn(newAngles, positions, dims, configs, i, toEnd, toTarget, worldAxis) ==
  The({ [newAngles |-> angles2,
         positions |-> copyEndEffector(positions, computeFK(angles2, dims)),
         updated |-> TRUE] :
        angles2 \in
          {[newAngles EXCEPT ![i + 1] =
              limitAngle(newAngles[i + 1]
                           + rotAngleOf(project(toEnd, worldAxis),
                                        project(toTarget, worldAxis), worldAxis),
                         configs[i + 1])]} })

\* The body of the backward pass for joint i (0-based): positions is the array
\* computed at the start of the outer iteration, whose element 7 is
\* endEffectorPos.  Yields the working angles and positions after it, and
\* whether the joint was updated (FALSE: the continue was taken).
ikJoint(targetPos, newAngles, positions, dims, configs, i) ==
  The({ IF Abs(One - clamp(dot(toEnd, toTarget), -One, One)) < SkipEps
        THEN [newAngles |-> newAngles, positions |-> positions, updated |-> FALSE]
        ELSE The({ ikTurn(newAngles, positions, dims, configs, i, toEnd, toTarget,
                          worldAxis) :
                   worldAxis \in {worldAxisOf(newAngles, dims, i)} }) :
        toEnd \in {normalizeLen(subVectors(positions[8], positions[i + 1]))},
        toTarget \in {normalizeLen(subVectors(targetPos, positions[i + 1]))} })

\* the backward pass from joint i down to joint 0
RECURSIVE ikSweep(_, _, _, _, _, _)
ikSweep(targetPos, newAngles, positions, dims, configs, i) ==
  IF i < 0 THEN newAngles
  ELSE The({ ikSweep(targetPos, r.newAngles, r.positions, dims, configs, i - 1) :
             r \in {ikJoint(targetPos, newAngles, positions, dims, configs, i)} })

\* the outer loop from iteration iter on
RECURSIVE ikIterate(_, _, _, _, _)
ikIterate(targetPos, newAngles, dims, configs, iter) ==
  IF iter >= maxIterations THEN newAngles
  ELSE The({ IF reached(positions[8], targetPos) THEN newAngles
             ELSE The({ ikIterate(targetPos, swept, dims, configs, iter + 1) :
                        swept \in {ikSweep(targetPos, newAngles, positions, dims,
                                           configs, sweepStart)} }) :
             positions \in {computeFK(newAngles, dims)} })

\* CCD IK Solver: the angles it returns
solveIK(targetPos, currentAngles, dims, configs) ==
  ikIterate(targetPos, currentAngles, dims, configs, 0)

\* dimensions with the shoulder link J1-J2 only 0.1 long
DEFAULT_DIMENSIONS_ShortShoulder == <<20, 10, 80, 60, 60, 50, 30, 20>>
DEFAULT_DIMENSIONS == <<20, 30, 80, 60, 60, 50, 30, 20>>
DEFAULT_JOINTS == <<
  [min |-> -314, max |-> 314, defaultValue |-> 0, speed |-> 2],
  [min |-> -157, max |-> 157, defaultValue |-> 0, speed |-> 2],
  [min |-> -209, max |-> 209, defaultValue |-> 0, speed |-> 3],
  [min |-> -209, max |-> 209, defaultValue |-> 0, speed |-> 3],
  [min |-> -209, max |-> 209, defaultValue |-> 0, speed |-> 3],
  [min |-> -262, max |-> 262, defaultValue |-> 79, speed |-> 4],
  [min |-> -628, max |-> 628, defaultValue |-> 0, speed |-> 5] >>
(***************************************************************************)
(* State.  The first group is what the App component keeps between frames  *)
(* (its refs and the isColliding state), with records of the last frame,   *)
(* kept so that properties can speak of them: gamepad, the snapshot it     *)
(* read (none: the empty sequence); proposedJoints, the                    *)
(* clamped proposal; passed, the angle vectors the frame passed to         *)
(* computeFK, in order; wristAdjusted, whether it made a manual wrist      *)
(* adjustment in IK mode; snapped, the IK target as its button handling    *)
(* left it; branch, the branch it took.  hist tells how the IK mode was    *)
(* last switched on (by), whether a stick, the D-pad or a drag has acted on *)
(* the arm in IK mode since (moved), and whether the target was dragged     *)
(* since the last frame (dragged).  sched is the scheduling of updateLoop: *)
(* the animation-frame callbacks that are pending, requestRef, the          *)
(* gamepadConnected state with the update waiting to be rendered, the      *)
(* updateLoop callbacks created so far with the gamepadConnected each      *)
(* closes over, and whether the Start/Stop effect is still to run.         *)
(* col, fk, ik, ws, mem, ov and seg hold the arguments, locals and results *)
(* of calls of checkSelfCollision, computeFK, solveIK, generateWorkspace,  *)
(* the engine functions as seen by their caller, handleLimitChange and     *)
(* distSegmentToSegment that are examined on their own.                    *)
(***************************************************************************)
VARIABLES jointValues, gripperValue, controlMode, ikMode, ikTargetPos,
          lastButtonState, isColliding, jointsConfig, proposedJoints, passed,
          wristAdjusted, snapped, gamepad, hist, branch, frames, sched,
          col, fk, ik, ws, mem, ov, seg

appVars == <<jointValues, gripperValue, controlMode, ikMode, ikTargetPos,
             lastButtonState, isColliding, jointsConfig, proposedJoints, passed,
             wristAdjusted, snapped, gamepad, hist, branch, frames, sched>>
vars == <<appVars, col, fk, ik, ws, mem, ov, seg>>

\* DEFAULT_JOINTS.map(j => j.defaultValue)
defaultValues ==
  << DEFAULT_JOINTS[1].defaultValue, DEFAULT_JOINTS[2].defaultValue,
     DEFAULT_JOINTS[3].defaultValue, DEFAULT_JOINTS[4].defaultValue,
     DEFAULT_JOINTS[5].defaultValue, DEFAULT_JOINTS[6].defaultValue,
     DEFAULT_JOINTS[7].defaultValue >>

\* the App component after its first render
AppInit ==
  /\ jointValues = defaultValues
  /\ gripperValue = 0
  /\ controlMode = 0
  /\ ikMode = FALSE
  /\ ikTargetPos = <<0, 150, 150>>
  /\ lastButtonState = [b \in {0, 4, 5} |-> FALSE]
  /\ isColliding = FALSE
  /\ jointsConfig = DEFAULT_JOINTS
  /\ proposedJoints = defaultValues
  /\ passed = <<>>
  /\ wristAdjusted = FALSE
  /\ snapped = <<0, 150, 150>>
  /\ gamepad = <<>>
  /\ hist = [by |-> "none", moved |-> FALSE, dragged |-> FALSE]
  /\ sched = [pending |-> {}, requestRef |-> 0, gamepadConnected |-> FALSE,
               queued |-> <<>>, closures |-> <<FALSE>>, effect |-> TRUE,
               nextId |-> 1, tasks |-> 0]
  /\ branch = "none"
  /\ frames = 0

\* no call under examination
NoCall == [pc |-> "none"]

(***************************************************************************)
(* checkSelfCollision on its own: a position array is drawn, checked, and  *)
(* then one of its points is moved and it is checked again.                *)
(***************************************************************************)
MaxMoves == 2

\* the rest pose and the pose with every angle zero
RestPose == computeFK(defaultValues, DEFAULT_DIMENSIONS)
ZeroPose == computeFK(<<0, 0, 0, 0, 0, 0, 0>>, DEFAULT_DIMENSIONS)
\* a chain that turns back on itself: link 4 runs beside link 2, and its end
\* beside the end of link 1, at 15 cm
TurnedPose ==
  << <<0, 20, 0>>, <<0, 50, 0>>, <<0, 50, 40>>, <<0, 65, 40>>,
     <<0, 65, 0>>, <<0, 65, -40>>, <<0, 65, -80>>, <<0, 65, -100>> >>
\* the elbow folded back over the upper arm
FoldedPose == computeFK(<<0, 0, 0, 209, 209, 0, 0>>, DEFAULT_DIMENSIONS)

\* the shoulder pitched down until the tip is lower than the floor buffer
LoweredPose == computeFK(<<0, 4, 0, 0, 0, 79, 0>>, DEFAULT_DIMENSIONS)

Poses == {RestPose, ZeroPose, TurnedPose, FoldedPose, LoweredPose}
MovedPoints == {5, 8}
Moves == {<<0, -1, 0>>, <<0, -10, 0>>, <<0, 14, 0>>, <<1, 0, 0>>, <<0, 0, -30>>}

ColInit ==
  /\ AppInit
  /\ fk = NoCall /\ ik = NoCall /\ ws = NoCall
  /\ mem = NoCall /\ ov = NoCall /\ seg = NoCall
  /\ \E p \in Poses : col = [pc |-> "call", positions |-> p, verdict |-> FALSE, moves |-> 0]

\* the call checkSelfCollision(positions)
CheckCollision ==
  /\ col.pc = "call"
  /\ col' = [col EXCEPT !.pc = "return", !.verdict = checkSelfCollision(col.positions)]
  /\ UNCHANGED <<appVars, fk, ik, ws, mem, ov, seg>>

\* the caller moves one point for the next call
MovePoint ==
  /\ col.pc = "return"
  /\ col.moves < MaxMoves
  /\ \E k \in MovedPoints, d \in Moves :
       col' = [col EXCEPT !.pc = "call", !.moves = @ + 1,
                          !.positions[k] = addVectors(@, d)]
  /\ UNCHANGED <<appVars, fk, ik, ws, mem, ov, seg>>

CollisionNext == CheckCollision \/ MovePoint
SpecCollision == ColInit /\ [][CollisionNext]_vars

\* segment i (0..7) of the check: the base link from the origin, then the links
\* between consecutive positions
SegmentStart(positions, i) == IF i = 0 THEN <<0, 0, 0>> ELSE positions[i]
SegmentEnd(positions, i) == positions[i + 1]
SegmentDistance(positions, i, j) ==
  distSegmentToSegment(SegmentStart(positions, i), SegmentEnd(positions, i),
                       SegmentStart(positions, j), SegmentEnd(positions, j))
FloorViolated(positions) ==
  \E k \in 1..8 : positions[k][2] < FLOOR_LIMIT + FloorBuffer
NonAdjacentPairs == {<<i, j>> \in (0..7) \X (0..7) : i < j /\ j - i >= 2}

\* C1: the verdict of checkSelfCollision is TRUE exactly when some position is
\* lower than FLOOR_LIMIT + 0.05 or some pair of segments i < j with j - i >= 2
\* is at a distance strictly below COLLISION_WARNING_THRESHOLD; adjacent
\* segments, which always touch, and a pair at exactly the threshold do not
\* make it TRUE.
C1_CollisionVerdict ==
  col.pc = "return" =>
    (col.verdict <=>
       \/ FloorViolated(col.positions)
       \/ \E q \in NonAdjacentPairs :
            SegmentDistance(col.positions, q[1], q[2]) < COLLISION_WARNING_THRESHOLD)

\* C1: a checked array without a verdict although a non-adjacent pair is at
\* exactly the threshold (and every adjacent pair touches)
C1_Witness ==
  /\ col.pc = "return"
  /\ ~col.verdict
  /\ \E q \in NonAdjacentPairs :
       SegmentDistance(col.positions, q[1], q[2]) = COLLISION_WARNING_THRESHOLD
  /\ \A i \in 0..6 : SegmentDistance(col.positions, i, i + 1) = 0

\* a checked array with a verdict that is due to a close pair only
C1_CloseOnly ==
  col.pc = "return" /\ col.verdict /\ ~FloorViolated(col.positions)
\* a checked array with a verdict that is due to the floor only
C1_FloorOnly ==
  /\ col.pc = "return" /\ col.verdict
  /\ \A q \in NonAdjacentPairs :
       SegmentDistance(col.positions, q[1], q[2]) >= COLLISION_WARNING_THRESHOLD

\* C11: checkSelfCollision returns FALSE for the default rest pose, the FK
\* positions of every joint's defaultValue with DEFAULT_DIMENSIONS: no position
\* of it is below the floor buffer and no two non-adjacent links of it are
\* closer than the threshold.
C11_RestPoseClear ==
  col.pc = "return" /\ col.positions = RestPose =>
    /\ col.verdict = FALSE
    /\ ~FloorViolated(col.positions)
    /\ \A q \in NonAdjacentPairs :
         SegmentDistance(col.positions, q[1], q[2]) >= COLLISION_WARNING_THRESHOLD

\* C11: checkSelfCollision has returned for the rest pose as computeFK gave it
C11_Witness ==
  /\ col.pc = "return"
  /\ col.moves = 0
  /\ col.positions = computeFK(defaultValues, DEFAULT_DIMENSIONS)

(***************************************************************************)
(* computeFK on its own: angles and lengths are drawn and computeFK is     *)
(* called; then it is called again, with the same angles or with one       *)
(* angle changed.  prevAngles and prevPositions are the arguments and the  *)
(* result of the call before.                                              *)
(***************************************************************************)
MaxCalls == 2

FKAngles ==
  { <<0, 0, 0, 0, 0, 0, 0>>, defaultValues, <<100, -50, 30, 120, -200, 79, 300>> }
FKDimensions ==
  { DEFAULT_DIMENSIONS, <<10, 15, 40, 30, 30, 25, 15, 10>>, <<20, 30, 100, 60, 40, 50, 30, 150>> }
FKChangedAngles == {-157, 0, 79, 300}

FKInit ==
  /\ AppInit
  /\ col = NoCall /\ ik = NoCall /\ ws = NoCall
  /\ mem = NoCall /\ ov = NoCall /\ seg = NoCall
  /\ \E a \in FKAngles, d \in FKDimensions :
       fk = [pc |-> "call", angles |-> a, dims |-> d, positions |-> << >>,
             prevAngles |-> << >>, prevPositions |-> << >>, calls |-> 0]

\* the call computeFK(angles, dims)
ComputeFK ==
  /\ fk.pc = "call"
  /\ fk' = [fk EXCEPT !.pc = "return", !.calls = @ + 1,
                      !.positions = computeFK(fk.angles, fk.dims),
                      !.prevPositions = fk.positions]
  /\ UNCHANGED <<appVars, col, ik, ws, mem, ov, seg>>

\* the caller asks again with the same arguments
SameAngles ==
  /\ fk.pc = "return"
  /\ fk.calls < MaxCalls
  /\ fk' = [fk EXCEPT !.pc = "call", !.prevAngles = fk.angles]
  /\ UNCHANGED <<appVars, col, ik, ws, mem, ov, seg>>

\* the caller asks again with one angle changed
ChangeAngle ==
  /\ fk.pc = "return"
  /\ fk.calls < MaxCalls
  /\ \E j \in 1..7, a \in FKChangedAngles :
       /\ a # fk.angles[j]
       /\ fk' = [fk EXCEPT !.pc = "call", !.prevAngles = fk.angles, !.angles[j] = a]
  /\ UNCHANGED <<appVars, col, ik, ws, mem, ov, seg>>

FKNext == ComputeFK \/ SameAngles \/ ChangeAngle
SpecFK == FKInit /\ [][FKNext]_vars

IsPosition(p) == Len(p) = 3 /\ \A c \in 1..3 : p[c] \in Int

SumDimensions(d) == d[1] + d[2] + d[3] + d[4] + d[5] + d[6] + d[7] + d[8]

\* C9, as stated: with all seven angles zero and DEFAULT_DIMENSIONS the tip is
\* directly above the base (x = 0, z = 0) at the height of the sum of all
\* eight lengths
C9_TipAboveBase ==
  fk.pc = "return" /\ fk.angles = <<0, 0, 0, 0, 0, 0, 0>> /\ fk.dims = DEFAULT_DIMENSIONS
    => fk.positions[8] = <<0, SumDimensions(fk.dims), 0>>

\* C9, amended: with all seven angles zero and DEFAULT_DIMENSIONS the tip is at
\* x = 0, at the height baseHeight + j1j2, and forward along z by the sum of
\* the other six lengths
C9_TipForward ==
  fk.pc = "return" /\ fk.angles = <<0, 0, 0, 0, 0, 0, 0>> /\ fk.dims = DEFAULT_DIMENSIONS
    => fk.positions[8] =
         <<0, fk.dims[1] + fk.dims[2],
           fk.dims[3] + fk.dims[4] + fk.dims[5] + fk.dims[6] + fk.dims[7] + fk.dims[8]>>

\* C9: computeFK has returned for the zero angles and DEFAULT_DIMENSIONS
C9_Witness ==
  /\ fk.pc = "return" /\ fk.angles = <<0, 0, 0, 0, 0, 0, 0>> /\ fk.dims = DEFAULT_DIMENSIONS
  /\ fk.positions[8][3] > 0

\* C10: two angle vectors that differ at index 6 only (the wrist roll) give the
\* same 8 positions, the tip among them, whatever the lengths
C10_RollKeepsPositions ==
  /\ fk.pc = "return" /\ fk.calls >= 2
  /\ \A j \in 1..6 : fk.prevAngles[j] = fk.angles[j]
  => fk.positions = fk.prevPositions

\* C10: a call after the wrist roll alone was changed, in a pose where the
\* wrist pitch is not zero
C10_Witness ==
  /\ fk.pc = "return" /\ fk.calls >= 2
  /\ \A j \in 1..6 : fk.prevAngles[j] = fk.angles[j]
  /\ fk.prevAngles[7] # fk.angles[7]
  /\ fk.angles[6] # 0
  /\ fk.positions[8] = fk.prevPositions[8]

(***************************************************************************)
(* solveIK on its own, one step of its loops at a time.  ik holds the      *)
(* arguments (targetPos, currentAngles, dims, configs), the locals         *)
(* (newAngles, positions, iter, i) and, as bookkeeping, the number of      *)
(* joints the backward passes have visited, the number and the set of the  *)
(* joints they have updated, and the working angles at the start of the    *)
(* current outer iteration.                                                *)
(***************************************************************************)
\* limits with the shoulder pitch J2 frozen at 0 (min = max)
FrozenJoints ==
  [DEFAULT_JOINTS EXCEPT ![2] = [@ EXCEPT !.min = 0, !.max = 0]]
\* limits narrowed after the arm was posed: the rest value of J6 and a rolled
\* J7 now lie outside them
NarrowJoints ==
  [DEFAULT_JOINTS EXCEPT ![6] = [@ EXCEPT !.min = -52, !.max = 52],
                         ![7] = [@ EXCEPT !.min = -35, !.max = 35]]

IKConfigs == {DEFAULT_JOINTS, FrozenJoints, NarrowJoints}
IKAngles == { defaultValues, <<0, 0, 0, 0, 0, 0, 0>>, <<30, -20, 40, 0, 10, 79, 50>> }
\* the default target, one beside it, one to the side of the arm, one near the
\* floor, one out of reach
IKTargets ==
  { <<0, 150, 150>>, <<10, 150, 150>>, <<50, 100, 150>>, <<0, 0, 285>>, <<0, 500, 500>> }

IKInit ==
  /\ AppInit
  /\ col = NoCall /\ fk = NoCall /\ ws = NoCall
  /\ mem = NoCall /\ ov = NoCall /\ seg = NoCall
  /\ \E a \in IKAngles, c \in IKConfigs :
       \E t \in IKTargets \cup {computeFK(a, DEFAULT_DIMENSIONS)[8]} :
         ik = [pc |-> "iter", targetPos |-> t, currentAngles |-> a,
               dims |-> DEFAULT_DIMENSIONS, configs |-> c,
               newAngles |-> a, positions |-> << >>, iter |-> 0, i |-> 0,
               visited |-> 0, updates |-> 0, touched |-> {}, iterAngles |-> a]

\* the head of the outer loop, the end effector not yet at the target: FK of
\* the working angles, then into the backward pass
IKStartIteration ==
  /\ ik.pc = "iter"
  /\ ik.iter < maxIterations
  /\ \E positions \in {computeFK(ik.newAngles, ik.dims)} :
        /\ ~reached(positions[8], ik.targetPos)
        /\ ik' = [ik EXCEPT !.pc = "sweep", !.positions = positions, !.i = sweepStart,
                            !.iterAngles = ik.newAngles]
  /\ UNCHANGED <<appVars, col, fk, ws, mem, ov, seg>>

\* the head of the outer loop, the end effector at the target: break
IKBreak ==
  /\ ik.pc = "iter"
  /\ ik.iter < maxIterations
  /\ \E positions \in {computeFK(ik.newAngles, ik.dims)} :
        /\ reached(positions[8], ik.targetPos)
        /\ ik' = [ik EXCEPT !.pc = "done", !.positions = positions]
  /\ UNCHANGED <<appVars, col, fk, ws, mem, ov, seg>>

\* the head of the outer loop after the last iteration: return newAngles
IKExhausted ==
  /\ ik.pc = "iter"
  /\ ik.iter >= maxIterations
  /\ ik' = [ik EXCEPT !.pc = "done"]
  /\ UNCHANGED <<appVars, col, fk, ws, mem, ov, seg>>

\* the body of the backward pass for the joint i, and the step to the next
\* joint or, after joint 0, to the next outer iteration
IKJointStep ==
  /\ ik.pc = "sweep"
  /\ \E r \in {ikJoint(ik.targetPos, ik.newAngles, ik.positions, ik.dims, ik.configs, ik.i)} :
        ik' = [ik EXCEPT !.newAngles = r.newAngles,
                         !.positions = r.positions,
                         !.visited = @ + 1,
                         !.updates = IF r.updated THEN @ + 1 ELSE @,
                         !.touched = IF r.updated THEN @ \cup {ik.i} ELSE @,
                         !.i = IF ik.i > 0 THEN ik.i - 1 ELSE @,
                         !.iter = IF ik.i > 0 THEN @ ELSE @ + 1,
                         !.pc = IF ik.i > 0 THEN "sweep" ELSE "iter"]
  /\ UNCHANGED <<appVars, col, fk, ws, mem, ov, seg>>

IKNext == IKStartIteration \/ IKBreak \/ IKExhausted \/ IKJointStep
SpecIK == IKInit /\ [][IKNext]_vars

InRange(a, config) == config.min <= a /\ a <= config.max
\* a step of solveIK has been taken, or it has returned
IKUnderWay == ik.visited > 0 \/ ik.pc = "done"

\* C3, as stated: all the angles solveIK holds are within their [min, max] at
\* every intermediate step and in the returned vector, for every initial
\* angle vector and every limit configuration
C3_AllWithinLimits ==
  IKUnderWay => \A j \in 1..7 : InRange(ik.newAngles[j], ik.configs[j])

\* C3, amended: at every intermediate step and in the returned vector, every
\* angle that was within its limits in the initial vector and every angle
\* solveIK has updated is within its [min, max] (min <= max, min = max
\* included); so all of them are when the initial vector is within the limits
C3_WithinLimitsOnceInside ==
  IKUnderWay =>
    \A j \in 1..7 :
      InRange(ik.currentAngles[j], ik.configs[j]) \/ (j - 1) \in ik.touched
        => InRange(ik.newAngles[j], ik.configs[j])

\* C3: solveIK has returned after it updated a frozen joint (min = max) and
\* held another joint at its upper limit
C3_Witness ==
  /\ ik.pc = "done"
  /\ \E j \in 1..7 : (j - 1) \in ik.touched /\ ik.configs[j].min = ik.configs[j].max
  /\ \E j \in 1..7 : /\ (j - 1) \in ik.touched
                     /\ ik.configs[j].min < ik.configs[j].max
                     /\ ik.newAngles[j] = ik.configs[j].max
                     /\ ik.currentAngles[j] < ik.configs[j].max

\* the end effector of the initial angles is nearer than 0.01 to the target
StartsAtTarget ==
  LET tip == computeFK(ik.currentAngles, ik.dims)[8]
      d == subVectors(tip, ik.targetPos)
  IN dotRaw(d, d) < 1

\* C4: when the end effector of the initial angles is within 0.01 of the target
\* at the start of the first outer iteration, solveIK updates no joint and
\* returns a vector equal to initialAngles
C4_EarlyExit ==
  StartsAtTarget =>
    /\ ik.visited = 0 /\ ik.updates = 0 /\ ik.iter = 0
    /\ ik.newAngles = ik.currentAngles
    /\ ik.pc \in {"iter", "done"}

\* C4: solveIK has returned for a target that is the tip of the initial angles,
\* in a pose that is not the zero pose
C4_Witness ==
  /\ ik.pc = "done"
  /\ ik.targetPos = computeFK(ik.currentAngles, ik.dims)[8]
  /\ ik.currentAngles # <<0, 0, 0, 0, 0, 0, 0>>
  /\ ik.newAngles = ik.currentAngles

\* C5: solveIK terminates, after at most 5 outer iterations, each of them one
\* backward pass over the joints 5, 4, 3, 2, 1, 0 (so at most 30 joint updates),
\* whatever the target.  Every step of a call either visits the next joint of
\* the pass, or leaves the head of the outer loop for a pass or for the
\* return, and no step follows the return: with the visits bounded by 30, a
\* call has at most 37 steps.
C5_Terminates ==
  /\ [](/\ ik.iter <= 5
        /\ ik.visited <= 30
        /\ ik.updates <= ik.visited
        /\ ik.pc = "sweep" => ik.i \in 0..5 /\ ik.visited = 6 * ik.iter + (5 - ik.i)
        /\ ik.pc = "iter" => ik.visited = 6 * ik.iter)
  /\ [][/\ ik.pc # "done"
        /\ \/ ik.pc = "sweep" /\ ik'.visited = ik.visited + 1
           \/ ik.pc = "iter" /\ ik'.pc = "sweep" /\ ik'.i = 5 /\ ik'.visited = ik.visited
           \/ ik.pc = "iter" /\ ik'.pc = "done" /\ ik'.newAngles = ik.newAngles]_vars

\* C5: solveIK has returned after all 5 iterations and 30 visits, without
\* reaching the target
C5_Witness ==
  /\ ik.pc = "done" /\ ik.iter = 5 /\ ik.visited = 30 /\ ik.updates > 0
  /\ ik.positions[8] # ik.targetPos

\* C6: solveIK never changes joint 6 (the wrist roll): element 6 of the working
\* and of the returned vector is that of initialAngles, whatever the target,
\* the angles and the limits
C6_RollUntouched ==
  /\ ik.newAngles[7] = ik.currentAngles[7]
  /\ 6 \notin ik.touched

\* C6: solveIK has returned other angles than it was given, the roll not zero
\* and outside its limits
C6_Witness ==
  /\ ik.pc = "done"
  /\ ik.newAngles # ik.currentAngles
  /\ ik.currentAngles[7] # 0
  /\ ~InRange(ik.currentAngles[7], ik.configs[7])
  /\ ik.newAngles[7] = ik.currentAngles[7]

\* C7: whenever the backward pass is about to process joint i, the end effector
\* position and the position of joint i it uses are those computeFK returns
\* for the working angles of that moment, earlier updates of the same pass
\* included
C7_FreshPositions ==
  ik.pc = "sweep" =>
    LET fresh == computeFK(ik.newAngles, ik.dims)
    IN /\ ik.positions[8] = fresh[8]
       /\ ik.positions[ik.i + 1] = fresh[ik.i + 1]

\* C7: the pass is about to process a joint after an earlier update of the same
\* pass has moved the end effector
C7_Witness ==
  /\ ik.pc = "sweep" /\ ik.i < 5
  /\ ik.newAngles # ik.iterAngles
  /\ ik.positions[8] # computeFK(ik.iterAngles, ik.dims)[8]
  /\ ik.positions[8] = computeFK(ik.newAngles, ik.dims)[8]

(***************************************************************************)
(* The control loop.  A gamepad snapshot gp is what navigator.getGamepads  *)
(* yields for a frame: the set of pressed buttons among A (0), LB (4),     *)
(* RB (5) and the D-pad (12..15), the values of the triggers 6 and 7 and   *)
(* the four axes, all three in hundredths.  The lengths stay the default   *)
(* ones.                                                                   *)
(***************************************************************************)
MaxFrames == 2

currentDimensions == DEFAULT_DIMENSIONS

Neutral == [pressed |-> {}, lt |-> 0, rt |-> 0, axes |-> <<0, 0, 0, 0>>]
GamepadInputs ==
  { Neutral,
    [Neutral EXCEPT !.pressed = {0, 4}],
    [Neutral EXCEPT !.pressed = {0}, !.axes = <<0, -100, 0, 0>>],
    [Neutral EXCEPT !.axes = <<0, -100, 0, 0>>],
    [Neutral EXCEPT !.axes = <<8, 0, 100, -10>>, !.pressed = {12, 15}],
    [Neutral EXCEPT !.pressed = {4}, !.lt = 100],
    [Neutral EXCEPT !.pressed = {5}, !.rt = 100, !.axes = <<10, -10, 8, -5>>] }
\* where the pointer may drag the IK target to: beside the default target, and
\* near the floor in front of the rest pose
DragTargets == { <<10, 150, 150>>, <<0, 0, 285>> }

\* analog inputs without a dead zone
deadZoneNone(a) == a

\* the dead zone of the analog inputs: Math.abs(a) > 0.1 ? a : 0
deadZone(a) == IF Abs(a) > 10 THEN a ELSE 0
\* axis * speed, for an axis in hundredths
scaled(axis, speed) == RDiv(axis * speed, 100)
\* 1 for true, 0 for false
flag(b) == IF b THEN 1 ELSE 0

\* the proposal left as it is
clampJointsNone(proposed, configs) == proposed
\* Common Apply Logic: every proposed angle clamped to its limits
clampJoints(proposed, configs) ==
  << limitAngle(proposed[1], configs[1]), limitAngle(proposed[2], configs[2]),
     limitAngle(proposed[3], configs[3]), limitAngle(proposed[4], configs[4]),
     limitAngle(proposed[5], configs[5]), limitAngle(proposed[6], configs[6]),
     limitAngle(proposed[7], configs[7]) >>

\* the commit always made
commitAlways(collisionDetected, proposed, current) == proposed
\* if (!collisionDetected) jointValuesRef.current = proposedJoints
commit(collisionDetected, proposed, current) ==
  IF ~collisionDetected THEN proposed ELSE current

\* Manual Control: the proposal of the mode from the axes and the D-pad
manualJoints(joints, configs, mode, axis0, axis1, axis2, axis3, dUp, dDown) ==
  IF mode = 0
  THEN [joints EXCEPT ![1] = @ - scaled(axis0, configs[1].speed),
                      ![2] = @ - scaled(axis1, configs[2].speed),
                      ![3] = @ - scaled(axis2, configs[3].speed)]
  ELSE IF mode = 1
  THEN [joints EXCEPT ![3] = @ - scaled(axis1, configs[3].speed),
                      ![4] = @ - scaled(axis3, configs[4].speed),
                      ![5] = @ - scaled(axis2, configs[5].speed)]
  ELSE IF mode = 2
  THEN [joints EXCEPT ![6] = @ - scaled(axis1, configs[6].speed),
                      ![7] = @ - scaled(axis2, configs[7].speed),
                      ![4] = @ + 2 * flag(dUp) - 2 * flag(dDown)]
  ELSE joints

\* IK Control: the target after the sticks have moved it (speed 0.04, the
\* height not below 0.05)
movedTarget(target, axis0, axis1, axis3) ==
  IF axis0 # 0 \/ axis1 # 0 \/ axis3 # 0
  THEN << target[1] - scaled(axis0, 4),
          Max(5, target[2] - scaled(axis3, 4)),
          target[3] - scaled(axis1, 4) >>
  ELSE target

\* Manual Wrist adjustments (Post-IK Override) of the solved angles
wristOverride(solved, configs, axis2, dUp, dDown, dLeft, dRight) ==
  [solved EXCEPT ![7] = @ - scaled(axis2, configs[7].speed),
                 ![6] = @ + 2 * flag(dUp) - 2 * flag(dDown),
                 ![5] = @ - 2 * flag(dLeft) + 2 * flag(dRight)]

\* button handling that toggles the IK mode in every frame in which A is down
afterButtonsWhileHeld(gp, app) ==
  LET toggle == 0 \in gp.pressed
      newMode == IF toggle THEN ~app.ikMode ELSE app.ikMode
  IN [ikMode |-> newMode,
      ikTargetPos |-> IF toggle /\ newMode
                      THEN computeFK(app.jointValues, currentDimensions)[8]
                      ELSE app.ikTargetPos,
      controlMode |-> app.controlMode,
      passed |-> IF toggle /\ newMode THEN <<app.jointValues>> ELSE <<>>]

\* button handling that switches the control group in IK mode too
afterButtonsAnyMode(gp, app) ==
  LET toggle == 0 \in gp.pressed /\ ~app.lastButtonState[0]
      newMode == IF toggle THEN ~app.ikMode ELSE app.ikMode
      afterLB == IF 4 \in gp.pressed /\ ~app.lastButtonState[4]
                 THEN (app.controlMode - 1 + 3) % 3 ELSE app.controlMode
  IN [ikMode |-> newMode,
      ikTargetPos |-> IF toggle /\ newMode
                      THEN computeFK(app.jointValues, currentDimensions)[8]
                      ELSE app.ikTargetPos,
      controlMode |-> IF 5 \in gp.pressed /\ ~app.lastButtonState[5]
                      THEN (afterLB + 1) % 3 ELSE afterLB,
      passed |-> IF toggle /\ newMode THEN <<app.jointValues>> ELSE <<>>]

\* Handle Buttons: IK mode, IK target and control mode after the A, LB and RB
\* buttons of the snapshot gp have been handled
afterButtons(gp, app) ==
  LET toggle == 0 \in gp.pressed /\ ~app.lastButtonState[0]
      newMode == IF toggle THEN ~app.ikMode ELSE app.ikMode
      afterLB == IF ~newMode /\ 4 \in gp.pressed /\ ~app.lastButtonState[4]
                 THEN (app.controlMode - 1 + 3) % 3 ELSE app.controlMode
  IN [ikMode |-> newMode,
      \* Snap target to current tip position when enabling IK
      ikTargetPos |-> IF toggle /\ newMode
                      THEN computeFK(app.jointValues, currentDimensions)[8]
                      ELSE app.ikTargetPos,
      controlMode |-> IF ~newMode /\ 5 \in gp.pressed /\ ~app.lastButtonState[5]
                      THEN (afterLB + 1) % 3 ELSE afterLB,
      passed |-> IF toggle /\ newMode THEN <<app.jointValues>> ELSE <<>>]

\* Analog Inputs and D-Pad States of the snapshot gp
analogInputs(gp) ==
  [axis0 |-> deadZone(gp.axes[1]), axis1 |-> deadZone(gp.axes[2]),
   axis2 |-> deadZone(gp.axes[3]), axis3 |-> deadZone(gp.axes[4]),
   dUp |-> 12 \in gp.pressed, dDown |-> 13 \in gp.pressed,
   dLeft |-> 14 \in gp.pressed, dRight |-> 15 \in gp.pressed]

\* a manual wrist adjustment is made: axis2 !== 0 || dUp || dDown || dLeft || dRight
adjusted(in) == in.axis2 # 0 \/ in.dUp \/ in.dDown \/ in.dLeft \/ in.dRight

\* a stick is beyond the dead zone or a D-pad direction is pressed
steered(in) ==
  in.axis0 # 0 \/ in.axis1 # 0 \/ in.axis2 # 0 \/ in.axis3 # 0
    \/ in.dUp \/ in.dDown \/ in.dLeft \/ in.dRight

\* hist after a frame that found the IK mode was and left it now, with the
\* inputs in
histAfterFrame(h, was, now, in) ==
  [by |-> IF ~now THEN "none" ELSE IF ~was THEN "button" ELSE h.by,
   moved |-> now /\ (steered(in) \/ (was /\ h.moved)),
   dragged |-> FALSE]

\* IK Control: the proposal (solved for the moved target, then the wrist
\* override), the target the branch leaves and the angles it passes to computeFK
ikControl(target, joints, configs, in) ==
  The({ The({ [proposed |-> proposed,
               target |-> IF adjusted(in)
                          THEN computeFK(proposed, currentDimensions)[8]
                          ELSE moved,
               passed |-> IF adjusted(in) THEN <<proposed>> ELSE <<>>,
               adjusted |-> adjusted(in)] :
              proposed \in {wristOverride(solveIK(moved, joints, currentDimensions, configs),
                                          configs, in.axis2, in.dUp, in.dDown,
                                          in.dLeft, in.dRight)} }) :
        moved \in {movedTarget(target, in.axis0, in.axis1, in.axis3)} })

\* a gripper that is not held within 0..1
movedGripperFree(gripper, gp) ==
  gripper - scaled(gp.lt, 5) + scaled(gp.rt, 5)

\* Gripper
movedGripper(gripper, gp) ==
  clamp(gripper - scaled(gp.lt, 5) + scaled(gp.rt, 5), 0, 100)

\* Common Apply Logic: the proposal clamped and checked, committed if it does
\* not collide
applyLogic(proposed, current, configs) ==
  The({ The({ [jointValues |-> commit(collisionDetected, clamped, current),
               isColliding |-> collisionDetected,
               proposedJoints |-> clamped] :
              collisionDetected \in
                {checkSelfCollision(computeFK(clamped, currentDimensions))} }) :
        clamped \in {clampJoints(proposed, configs)} })

\* the branch of the frame on the IK mode b.ikMode: the proposal and the target
controlBranch(b, in, app) ==
  IF b.ikMode
  THEN ikControl(b.ikTargetPos, app.jointValues, app.jointsConfig, in)
  ELSE [proposed |-> manualJoints(app.jointValues, app.jointsConfig, b.controlMode,
                                  in.axis0, in.axis1, in.axis2, in.axis3,
                                  in.dUp, in.dDown),
        target |-> b.ikTargetPos,
        passed |-> <<>>,
        adjusted |-> FALSE]

\* What one frame of updateLoop with the gamepad snapshot gp makes of the refs
\* app (the state before the frame): the values it leaves in them, with the
\* clamped proposal and the verdict of the collision check
gamepadFrame(gp, app) ==
  The({ The({ The({ [jointValues |-> applied.jointValues,
                     gripperValue |-> movedGripper(app.gripperValue, gp),
                     controlMode |-> b.controlMode,
                     ikMode |-> b.ikMode,
                     ikTargetPos |-> c.target,
                     lastButtonState |-> [k \in {0, 4, 5} |-> k \in gp.pressed],
                     isColliding |-> applied.isColliding,
                     proposedJoints |-> applied.proposedJoints,
                     passed |-> b.passed \o c.passed \o <<applied.proposedJoints>>,
                     wristAdjusted |-> c.adjusted,
                     snapped |-> b.ikTargetPos] :
                    applied \in {applyLogic(c.proposed, app.jointValues,
                                            app.jointsConfig)} }) :
              c \in {controlBranch(b, analogInputs(gp), app)} }) :
        b \in {afterButtons(gp, app)} })

\* What one frame of updateLoop with no gamepad connected makes of the refs app
\* in IK mode: the committed angles, the clamped proposal and the verdict
noGamepadFrame(app) ==
  applyLogic(solveIK(app.ikTargetPos, app.jointValues, currentDimensions,
                     app.jointsConfig),
             app.jointValues, app.jointsConfig)

\* the refs of the App component, as the frame finds them
appRefs ==
  [jointValues |-> jointValues, gripperValue |-> gripperValue,
   controlMode |-> controlMode, ikMode |-> ikMode, ikTargetPos |-> ikTargetPos,
   lastButtonState |-> lastButtonState, jointsConfig |-> jointsConfig]

\* updateLoop with the gamepad snapshot gp
updateLoop(gp) ==
  /\ \E after \in {gamepadFrame(gp, appRefs)} :
       /\ jointValues' = after.jointValues
       /\ gripperValue' = after.gripperValue
       /\ controlMode' = after.controlMode
       /\ ikMode' = after.ikMode
       /\ ikTargetPos' = after.ikTargetPos
       /\ lastButtonState' = after.lastButtonState
       /\ isColliding' = after.isColliding
       /\ proposedJoints' = after.proposedJoints
       /\ passed' = after.passed
       /\ wristAdjusted' = after.wristAdjusted
       /\ snapped' = after.snapped
       /\ hist' = histAfterFrame(hist, ikMode, after.ikMode, analogInputs(gp))
  /\ gamepad' = <<gp>>
  /\ branch' = "gamepad"
  /\ frames' = frames + 1
  /\ UNCHANGED <<jointsConfig, col, fk, ik, ws, mem, ov, seg>>

\* one frame of updateLoop with the gamepad snapshot gp
GamepadFrame(gp) == frames < MaxFrames /\ updateLoop(gp) /\ UNCHANGED sched

\* updateLoop with no gamepad connected, in IK mode
updateLoopIK ==
  /\ \E after \in {noGamepadFrame(appRefs)} :
       /\ jointValues' = after.jointValues
       /\ isColliding' = after.isColliding
       /\ proposedJoints' = after.proposedJoints
       /\ passed' = <<after.proposedJoints>>
  /\ wristAdjusted' = FALSE
  /\ gamepad' = <<>>
  /\ hist' = [hist EXCEPT !.dragged = FALSE]
  /\ branch' = "ik"
  /\ frames' = frames + 1
  /\ UNCHANGED <<gripperValue, controlMode, ikMode, ikTargetPos, lastButtonState,
                 jointsConfig, snapped, col, fk, ik, ws, mem, ov, seg>>

\* one frame of updateLoop with no gamepad connected, in IK mode
NoGamepadIKFrame == frames < MaxFrames /\ ikMode /\ updateLoopIK /\ UNCHANGED sched

\* updateLoop with no gamepad connected, not in IK mode
updateLoopIdle ==
  /\ frames' = frames + 1
  /\ branch' = "idle"
  /\ passed' = <<>>
  /\ wristAdjusted' = FALSE
  /\ gamepad' = <<>>
  /\ hist' = [hist EXCEPT !.dragged = FALSE]
  /\ UNCHANGED <<jointValues, gripperValue, controlMode, ikMode, ikTargetPos,
                 lastButtonState, isColliding, jointsConfig, proposedJoints,
                 snapped, col, fk, ik, ws, mem, ov, seg>>

\* one frame of updateLoop with no gamepad connected, not in IK mode
NoGamepadIdleFrame ==
  frames < MaxFrames /\ ~ikMode /\ updateLoopIdle /\ UNCHANGED sched

\* the pointer drags the IK target to newPos
handleTargetDrag(newPos) ==
  /\ newPos # ikTargetPos
  /\ ikMode' = TRUE
  /\ ikTargetPos' = newPos
  /\ wristAdjusted' = FALSE
  /\ hist' = [by |-> IF ikMode THEN hist.by ELSE "drag", moved |-> TRUE,
               dragged |-> TRUE]
  /\ UNCHANGED <<jointValues, gripperValue, controlMode, lastButtonState,
                 isColliding, jointsConfig, proposedJoints, passed, snapped,
                 gamepad, branch, frames, sched,
                 col, fk, ik, ws, mem, ov, seg>>

\* an IK button that leaves the target where it was
toggleIkModeNoSnap ==
  /\ ikMode' = ~ikMode
  /\ wristAdjusted' = FALSE
  /\ hist' = [by |-> IF ikMode THEN "none" ELSE "overlay", moved |-> FALSE,
               dragged |-> hist.dragged]
  /\ UNCHANGED <<jointValues, gripperValue, controlMode, ikTargetPos,
                 lastButtonState, isColliding, jointsConfig, proposedJoints,
                 passed, snapped, gamepad, branch, frames, sched,
                 col, fk, ik, ws, mem, ov, seg>>

\* the IK button of the overlay
toggleIkMode ==
  /\ ikMode' = ~ikMode
  /\ ikTargetPos' = IF ~ikMode THEN computeFK(jointValues, currentDimensions)[8]
                    ELSE ikTargetPos
  /\ wristAdjusted' = FALSE
  /\ hist' = [by |-> IF ikMode THEN "none" ELSE "overlay", moved |-> FALSE,
               dragged |-> hist.dragged]
  /\ UNCHANGED <<jointValues, gripperValue, controlMode, lastButtonState,
                 isColliding, jointsConfig, proposedJoints, passed, snapped,
                 gamepad, branch, frames, sched,
                 col, fk, ik, ws, mem, ov, seg>>

Init ==
  /\ AppInit
  /\ col = NoCall /\ fk = NoCall /\ ik = NoCall /\ ws = NoCall
  /\ mem = NoCall /\ ov = NoCall /\ seg = NoCall
Next ==
  \/ \E gp \in GamepadInputs : GamepadFrame(gp)
  \/ NoGamepadIKFrame
  \/ NoGamepadIdleFrame
  \/ \E newPos \in DragTargets : handleTargetDrag(newPos)
  \/ toggleIkMode
Spec == Init /\ [][Next]_vars

\* a frame that went through the Common Apply Logic, in either branch
CheckedFrame == frames' = frames + 1 /\ branch' \in {"gamepad", "ik"}

\* C2: in a frame of the control loop (gamepad branch or no-gamepad IK branch),
\* isColliding is set to the verdict of checkSelfCollision on the FK positions
\* of the clamped proposal; if the verdict is true the frame leaves jointValues
\* exactly as it was, if it is false jointValues becomes the proposal; and no
\* other step of the loop changes jointValues.
C2_CommitOnlyWhenClear ==
  [][ /\ CheckedFrame =>
           \E verdict \in {checkSelfCollision(computeFK(proposedJoints', currentDimensions))} :
              /\ isColliding' = verdict
              /\ verdict => jointValues' = jointValues
              /\ ~verdict => jointValues' = proposedJoints'
      /\ jointValues' # jointValues => CheckedFrame /\ ~isColliding' ]_vars

\* C2: a frame of the no-gamepad IK branch has rejected a proposal that differs
\* from the committed angles
C2_Witness ==
  /\ branch = "ik"
  /\ isColliding
  /\ proposedJoints # jointValues

\* the same in the gamepad branch
C2_GamepadRejected ==
  /\ branch = "gamepad"
  /\ isColliding
  /\ proposedJoints # jointValues

(***************************************************************************)
(* The limit sliders of the overlay.                                       *)
(***************************************************************************)
\* parseFloat(value) * (Math.PI / 180), value in degrees
degToRad(value) == RDiv(value * Pi, 180)

\* handleLimitChange: the configuration with one field of joint index
\* (0-based) set from the slider
limitChanged(config, index, field, value) ==
  [config EXCEPT ![index + 1] =
     IF field = "min" THEN [@ EXCEPT !.min = degToRad(value)]
     ELSE [@ EXCEPT !.max = degToRad(value)]]

\* the default limits after the 'max' slider of J1 is drawn to its left end
InvertedJoints == limitChanged(DEFAULT_JOINTS, 0, "max", -360)

(***************************************************************************)
(* generateWorkspace on its own.  Math.random() is a choice among a few    *)
(* values, in hundredths, for the seven joints of one sample.  ws.trials   *)
(* keeps the angles of every sample drawn, which the code does not retain, *)
(* so that properties can speak of where an emitted point came from.       *)
(***************************************************************************)
MaxSamples == 2

RandomDraws ==
  { <<50, 50, 50, 50, 50, 50, 50>>, <<0, 0, 0, 0, 0, 0, 0>>,
    <<50, 50, 99, 99, 50, 50, 50>>, <<25, 40, 50, 50, 50, 65, 99>>,
    <<99, 30, 60, 45, 50, 99, 0>> }

WorkspaceConfigs == {DEFAULT_JOINTS, NarrowJoints, InvertedJoints}

\* configs.map(j => j.min + Math.random() * (j.max - j.min))
randAnglesOf(configs, draw) ==
  [i \in 1..7 |-> configs[i].min + RDiv(draw[i] * (configs[i].max - configs[i].min), 100)]

\* a sample is emitted unless it collides
emits(positions) == ~checkSelfCollision(positions)

\* the points array after one turn of the sampling loop
pushed(points, positions) ==
  IF emits(positions) THEN Append(points, positions[8]) ELSE points

WorkspaceInit ==
  /\ AppInit
  /\ col = NoCall /\ fk = NoCall /\ ik = NoCall
  /\ mem = NoCall /\ ov = NoCall /\ seg = NoCall
  /\ \E samples \in 1..MaxSamples, configs \in WorkspaceConfigs :
       ws = [pc |-> "loop", samples |-> samples, dims |-> DEFAULT_DIMENSIONS,
             configs |-> configs, i |-> 0, points |-> <<>>, trials |-> <<>>,
             workspacePoints |-> <<>>]

\* one turn of for (let i = 0; i < samples; i++)
SampleStep ==
  /\ ws.pc = "loop"
  /\ ws.i < ws.samples
  /\ \E draw \in RandomDraws :
       \E randAngles \in {randAnglesOf(ws.configs, draw)} :
         \E positions \in {computeFK(randAngles, ws.dims)} :
           ws' = [ws EXCEPT !.i = ws.i + 1,
                            !.points = pushed(ws.points, positions),
                            !.trials = Append(ws.trials, randAngles)]
  /\ UNCHANGED <<appVars, col, fk, ik, mem, ov, seg>>

\* the loop is left: setWorkspacePoints(new Float32Array(points))
PublishWorkspace ==
  /\ ws.pc = "loop"
  /\ ws.i >= ws.samples
  /\ ws' = [ws EXCEPT !.pc = "done", !.workspacePoints = ws.points]
  /\ UNCHANGED <<appVars, col, fk, ik, mem, ov, seg>>

WorkspaceNext == SampleStep \/ PublishWorkspace
SpecWorkspace == WorkspaceInit /\ [][WorkspaceNext]_vars

\* the angles of the samples drawn so far that do not collide, in order
RECURSIVE validTrials(_, _)
validTrials(trials, k) ==
  IF k > Len(trials) THEN <<>>
  ELSE The({ (IF checkSelfCollision(positions) THEN <<>> ELSE <<trials[k]>>)
               \o validTrials(trials, k + 1) :
             positions \in {computeFK(trials[k], DEFAULT_DIMENSIONS)} })

WithinLimits(angles, configs) == \A i \in 1..7 : InRange(angles[i], configs[i])
ValidLimits(configs) == \A i \in 1..7 : configs[i].min <= configs[i].max

\* the points emitted are the tips of the samples that do not collide, one
\* point of three coordinates each, and nothing else is emitted
EmittedTips(origins) ==
  /\ Len(ws.points) = Len(origins)
  /\ Len(ws.points) <= ws.i /\ ws.i <= ws.samples
  /\ \A k \in 1..Len(origins) :
       /\ IsPosition(ws.points[k])
       /\ ws.points[k] = computeFK(origins[k], ws.dims)[8]
       /\ ~checkSelfCollision(computeFK(origins[k], ws.dims))
  /\ ws.pc = "done" => ws.workspacePoints = ws.points /\ ws.i = ws.samples

\* C12: generateWorkspace with N samples emits between 0 and N points of three
\* coordinates; every emitted point is the tip of a sampled configuration that
\* has every angle within its [min, max] and does not collide, and a colliding
\* sample emits nothing
C12_ValidTipsOnly ==
  ws.pc # "none" =>
    \E origins \in {validTrials(ws.trials, 1)} :
      /\ EmittedTips(origins)
      /\ \A k \in 1..Len(origins) : WithinLimits(origins[k], ws.configs)

\* C12 where every joint has min <= max: the same, and it holds
C12_ValidTipsOfValidLimits ==
  ws.pc # "none" /\ ValidLimits(ws.configs) =>
    \E origins \in {validTrials(ws.trials, 1)} :
      /\ EmittedTips(origins)
      /\ \A k \in 1..Len(origins) : WithinLimits(origins[k], ws.configs)

\* the sampling is over with valid limits, one sample emitted and one dropped
C12_Witness ==
  /\ ws.pc = "done" /\ ValidLimits(ws.configs)
  /\ ws.samples = 2 /\ Len(ws.workspacePoints) = 1

(***************************************************************************)
(* The engine functions and the objects of their caller.  Arrays, vectors  *)
(* and the JOINT_AXES table are passed by reference; a function changes    *)
(* what its caller holds when a statement that assigns into an object      *)
(* (newAngles[i] = .., v.copy(..), v.normalize(), m.multiply(..)) has one  *)
(* of the caller's objects as its receiver.  An object is named by where   *)
(* it comes from: one of CallerObjects, or New for an object that the call *)
(* itself makes.  mem.objects is what the caller's objects hold,           *)
(* mem.written the receivers of the assigning statements of the last call. *)
(***************************************************************************)
MaxEngineCalls == 2

\* the angles passed to computeFK
ObjectAngles == {defaultValues, <<30, -20, 40, 0, 10, 79, 50>>}

CallerObjects == {"initialAngles", "targetPos", "angles", "positions", "JOINT_AXES"}

\* new Vector3(), new Matrix4(), [] and what computeFK returns
New == "new"

\* const newAngles = currentAngles: the same array under another name
spreadShared(array) == array
\* [...array]: a new array with the elements of array
spread(array) == New

\* new Vector3().copy(v) and v.clone(): a new vector with the value of v
copied(v) == New

\* the receivers of the assigning statements of computeFK: currentMatrix,
\* rotationMatrix, the translation matrices, jointPositions and its vectors
computeFKWritten == {New}

\* those of checkSelfCollision and distSegmentToSegment: segments and its
\* vector (0,0,0); u, v, w and dP
checkSelfCollisionWritten == {New}

\* those of solveIK: newAngles; toEnd and toTarget; worldAxis; the clones of
\* toEnd, toTarget and worldAxis and cross; tempMatrix and rot;
\* endEffectorPos, an element of what computeFK returned
solveIKWritten ==
  {spread("initialAngles"), New, copied("JOINT_AXES"), copied(New)} \cup computeFKWritten

\* what the caller's objects hold after solveIK: the array newAngles names
\* holds the angles returned
afterSolveIK(objects, returned) ==
  [o \in CallerObjects |->
     IF o = spread("initialAngles") THEN returned ELSE objects[o]]

ObjectsInit ==
  /\ AppInit
  /\ col = NoCall /\ fk = NoCall /\ ik = NoCall /\ ws = NoCall
  /\ ov = NoCall /\ seg = NoCall
  /\ \E a \in IKAngles, b \in ObjectAngles, t \in DragTargets,
        p \in {RestPose, FoldedPose}, c \in {DEFAULT_JOINTS, NarrowJoints} :
       mem = [pc |-> "caller", calls |-> 0, configs |-> c,
              objects |-> [initialAngles |-> a, targetPos |-> t, angles |-> b,
                           positions |-> p, JOINT_AXES |-> JOINT_AXES],
              before |-> [initialAngles |-> a, targetPos |-> t, angles |-> b,
                          positions |-> p, JOINT_AXES |-> JOINT_AXES],
              written |-> {}, result |-> <<>>]

\* solveIK(targetPos, initialAngles, dims, configs) is called and returns
CallSolveIK ==
  /\ mem.calls < MaxEngineCalls
  /\ \E returned \in {solveIK(mem.objects.targetPos, mem.objects.initialAngles,
                              DEFAULT_DIMENSIONS, mem.configs)} :
       mem' = [mem EXCEPT !.pc = "solveIK", !.calls = mem.calls + 1,
                          !.before = mem.objects,
                          !.objects = afterSolveIK(mem.objects, returned),
                          !.written = solveIKWritten,
                          !.result = returned]
  /\ UNCHANGED <<appVars, col, fk, ik, ws, ov, seg>>

\* computeFK(angles, dims) is called and returns
CallComputeFK ==
  /\ mem.calls < MaxEngineCalls
  /\ mem' = [mem EXCEPT !.pc = "computeFK", !.calls = mem.calls + 1,
                        !.before = mem.objects,
                        !.written = computeFKWritten,
                        !.result = computeFK(mem.objects.angles, DEFAULT_DIMENSIONS)]
  /\ UNCHANGED <<appVars, col, fk, ik, ws, ov, seg>>

\* checkSelfCollision(positions) is called and returns
CallCheckSelfCollision ==
  /\ mem.calls < MaxEngineCalls
  /\ mem' = [mem EXCEPT !.pc = "checkSelfCollision", !.calls = mem.calls + 1,
                        !.before = mem.objects,
                        !.written = checkSelfCollisionWritten,
                        !.result = <<checkSelfCollision(mem.objects.positions)>>]
  /\ UNCHANGED <<appVars, col, fk, ik, ws, ov, seg>>

ObjectsNext == CallSolveIK \/ CallComputeFK \/ CallCheckSelfCollision
SpecObjects == ObjectsInit /\ [][ObjectsNext]_vars

C14_PassedClamped ==
  \A k \in 1..Len(passed) : WithinLimits(passed[k], jointsConfig)

(***************************************************************************)
(* The limit sliders on their own: each change of a slider calls           *)
(* handleLimitChange with its value, a whole number of degrees between     *)
(* -360 and 360.  ov.edits counts the changes.                             *)
(***************************************************************************)
MaxEdits == 2

LimitValues == {-360, -90, 0, 30, 90, 360}
EditedJoints == {0, 5, 6}

LimitsInit ==
  /\ AppInit
  /\ col = NoCall /\ fk = NoCall /\ ik = NoCall /\ ws = NoCall
  /\ mem = NoCall /\ seg = NoCall
  /\ ov = [pc |-> "limits", edits |-> 0]

\* a limit slider of joint index (0-based) is moved to value
handleLimitChange(index, field, value) ==
  /\ ov.edits < MaxEdits
  /\ jointsConfig' = limitChanged(jointsConfig, index, field, value)
  /\ ov' = [ov EXCEPT !.edits = ov.edits + 1]
  /\ UNCHANGED <<jointValues, gripperValue, controlMode, ikMode, ikTargetPos,
                 lastButtonState, isColliding, proposedJoints, passed, wristAdjusted,
                 snapped, gamepad, hist, branch, frames, sched,
                 col, fk, ik, ws, mem, seg>>

LimitsNext ==
  \E index \in EditedJoints, field \in {"min", "max"}, value \in LimitValues :
    handleLimitChange(index, field, value)
SpecLimits == LimitsInit /\ [][LimitsNext]_vars

\* C15: after any sequence of edits through the limit sliders every joint
\* still has min <= max
C15_MinBelowMax == ValidLimits(jointsConfig)

(***************************************************************************)
(* distSegmentToSegment on its own: the four end points are drawn from a   *)
(* few points (centimetres), so that segments of length zero, parallel     *)
(* segments (D = 0) and nearly parallel ones (0 < D < 1e-6 m^4) occur.     *)
(* seg keeps sN, sD, tN, tD, sc and tc of the call beside its result.      *)
(***************************************************************************)
SegmentPoints ==
  { <<0, 0, 0>>, <<5, 0, 0>>, <<5, 1, 0>>, <<0, 10, 0>>, <<5, 10, 0>>,
    <<-10, 3, 4>>, <<20, 0, 0>> }

SegmentInit ==
  /\ AppInit
  /\ col = NoCall /\ fk = NoCall /\ ik = NoCall /\ ws = NoCall
  /\ mem = NoCall /\ ov = NoCall
  /\ \E p1 \in SegmentPoints, q1 \in SegmentPoints, p2 \in SegmentPoints,
        q2 \in SegmentPoints :
       seg = [pc |-> "call", p1 |-> p1, q1 |-> q1, p2 |-> p2, q2 |-> q2]

\* the locals of distSegmentToSegment(p1, q1, p2, q2) at its return
segmentLocals(p1, q1, p2, q2) ==
  The({ The({ [u |-> u, v |-> v, w |-> w, D |-> dotRaw(u, u) * dotRaw(v, v)
                                               - dotRaw(u, v) * dotRaw(u, v),
               sN |-> second.sN, sD |-> second.sD, tN |-> second.tN, tD |-> second.tD,
               s4 |-> second.s4, t4 |-> second.t4,
               sc |-> ratio(second.sN, second.sD, second.s4),
               tc |-> ratio(second.tN, second.tD, second.t4)] :
              second \in {clampedParameters(dotRaw(u, u), dotRaw(u, v), dotRaw(v, v),
                                            dotRaw(u, w), dotRaw(v, w))} }) :
        u \in {subVectors(q1, p1)}, v \in {subVectors(q2, p2)},
        w \in {subVectors(p1, p2)} })

\* the call distSegmentToSegment(p1, q1, p2, q2)
MeasureSegments ==
  /\ seg.pc = "call"
  /\ seg' = [pc |-> "return", p1 |-> seg.p1, q1 |-> seg.q1, p2 |-> seg.p2, q2 |-> seg.q2,
             locals |-> segmentLocals(seg.p1, seg.q1, seg.p2, seg.q2),
             dist |-> distSegmentToSegment(seg.p1, seg.q1, seg.p2, seg.q2)]
  /\ UNCHANGED <<appVars, col, fk, ik, ws, mem, ov>>

SegmentNext == MeasureSegments
SpecSegment == SegmentInit /\ [][SegmentNext]_vars

\* the point of the segment from p along u at the parameter par, times Frac
PointAt(p, u, par) ==
  <<p[1] * Frac + u[1] * par, p[2] * Frac + u[2] * par, p[3] * Frac + u[3] * par>>

\* the distance of two points given times Frac in centimetres, in millimetres
\* rounded down
PointDistance(x, y) ==
  The({ Sqrt(dotRaw(dP, dP)) :
        dP \in {<<RDiv((x[1] - y[1]) * 10, Frac), RDiv((x[2] - y[2]) * 10, Frac),
                  RDiv((x[3] - y[3]) * 10, Frac)>>} })

\* C16: for every pair of segments, those of length zero and the parallel and
\* nearly parallel ones included, distSegmentToSegment has sc and tc within
\* [0, 1], divides by no zero, and returns the distance of the points of the
\* two segments at sc and tc
C16_ParametersInUnitInterval ==
  seg.pc = "return" =>
    \E l \in {seg.locals} :
      /\ 0 <= l.sc /\ l.sc <= Frac
      /\ 0 <= l.tc /\ l.tc <= Frac
      /\ ~belowEps(l.sN, l.s4) => l.sD # 0
      /\ ~belowEps(l.tN, l.t4) => l.tD # 0
      /\ seg.dist = PointDistance(PointAt(seg.p1, l.u, l.sc), PointAt(seg.p2, l.v, l.tc))

\* a call with nearly parallel segments apart from each other, whose tN was
\* brought down to tD
C16_Witness ==
  /\ seg.pc = "return"
  /\ seg.locals.D < Eps4 /\ seg.locals.D > 0
  /\ seg.locals.tc = Frac
  /\ seg.dist > 0

\* the length of the arm from the shoulder joint to the tip
Reach(dims) == dims[3] + dims[4] + dims[5] + dims[6] + dims[7] + dims[8]

\* the square of the distance of two points
DistanceSquared(p, q) == dotRaw(subVectors(p, q), subVectors(p, q))

\* a target well inside the reachable envelope: over the floor buffer and
\* within two thirds of the reach from the shoulder joint
WellInside(t, dims) ==
  /\ t[2] > FLOOR_LIMIT + FloorBuffer
  /\ 9 * DistanceSquared(t, <<0, dims[1] + dims[2], 0>>) <= 4 * Reach(dims) * Reach(dims)

\* solveIK has returned from a call with the rest pose, the default limits and
\* a target well inside the envelope
RestPoseSolved ==
  /\ ik.pc = "done"
  /\ ik.currentAngles = defaultValues
  /\ ik.dims = DEFAULT_DIMENSIONS /\ ik.configs = DEFAULT_JOINTS
  /\ WellInside(ik.targetPos, ik.dims)

\* C17, as stated: for a target well inside the reachable envelope solveIK
\* from the rest pose returns angles whose tip is less than the threshold 0.01
\* from the target, within the 5 iterations, and not farther from it than the
\* initial tip
C17_ConvergesInside ==
  RestPoseSolved =>
    \E tip \in {computeFK(ik.newAngles, ik.dims)[8]} :
      /\ ik.iter <= maxIterations
      /\ distanceToBelow(tip, ik.targetPos, threshold)
      /\ DistanceSquared(tip, ik.targetPos)
           <= DistanceSquared(computeFK(ik.currentAngles, ik.dims)[8], ik.targetPos)

\* C17, amended: for such a target solveIK from the rest pose returns within
\* the 5 iterations angles whose tip is not farther from the target than the
\* initial tip; it need not be within the threshold of it
C17_NotFartherInside ==
  RestPoseSolved =>
    \E tip \in {computeFK(ik.newAngles, ik.dims)[8]} :
      /\ ik.iter <= maxIterations
      /\ DistanceSquared(tip, ik.targetPos)
           <= DistanceSquared(computeFK(ik.currentAngles, ik.dims)[8], ik.targetPos)

\* the five iterations are used up, the tip is nearer the target than it was
\* and still not within the threshold
C17_Witness ==
  /\ RestPoseSolved
  /\ ik.iter = maxIterations
  /\ ~distanceToBelow(computeFK(ik.newAngles, ik.dims)[8], ik.targetPos, threshold)
  /\ DistanceSquared(computeFK(ik.newAngles, ik.dims)[8], ik.targetPos)
       < DistanceSquared(computeFK(ik.currentAngles, ik.dims)[8], ik.targetPos)

\* C18: with the default lengths and limits, whatever frames, mode toggles and
\* target drags have happened, the committed joint vector has every angle
\* within its [min, max] and its FK positions do not collide
C18_CommittedValid ==
  jointsConfig = DEFAULT_JOINTS =>
    /\ WithinLimits(jointValues, jointsConfig)
    /\ ~checkSelfCollision(computeFK(jointValues, currentDimensions))

\* a frame has committed a proposal that the clamp had brought back to the
\* limit of J5
C18_Witness ==
  /\ jointsConfig = DEFAULT_JOINTS
  /\ frames > 0
  /\ jointValues # defaultValues
  /\ jointValues[5] = jointsConfig[5].max
  /\ Len(passed) > 0 /\ passed[1][5] > jointsConfig[5].max

\* C19: when a frame in IK mode has made a manual wrist adjustment (right
\* stick X or a D-pad direction), the IK target it leaves is the FK tip of the
\* joint vector it leaves committed, also when the adjusted proposal was
\* clamped by the limits or rejected for collision
C19_TargetAtCommittedTip ==
  wristAdjusted => ikTargetPos = computeFK(jointValues, currentDimensions)[8]

\* a step of the model is one frame of updateLoop with a gamepad connected
GamepadFrameStep == branch' = "gamepad" /\ frames' = frames + 1

\* a step of the model is a pointer drag of the IK target
TargetDragStep == \E newPos \in DragTargets : handleTargetDrag(newPos)

\* C20: a frame with a gamepad toggles the IK mode exactly when button A is
\* down in it and was not down in the frame with a gamepad before it, so a
\* press held across frames toggles once; and a switch into IK mode made by
\* button A, or made between frames by anything but a drag of the target (the
\* overlay toggle), sets the IK target to the FK tip of the committed joints
C20_ToggleOncePerPress ==
  [][ /\ GamepadFrameStep =>
           /\ (ikMode' # ikMode) <=> (lastButtonState'[0] /\ ~lastButtonState[0])
           /\ (~ikMode /\ ikMode') =>
                snapped' = computeFK(jointValues, currentDimensions)[8]
      /\ (frames' = frames /\ ~ikMode /\ ikMode' /\ ~TargetDragStep) =>
           ikTargetPos' = computeFK(jointValues, currentDimensions)[8]
    ]_vars

\* button A was pressed with the left stick pushed in the first frame and held
\* so in the second: IK mode is on, switched once, and the target is two
\* stick steps above the rest tip it was snapped to
C20_Witness ==
  /\ frames = 2 /\ branch = "gamepad"
  /\ ikMode /\ lastButtonState[0]
  /\ snapped = addVectors(computeFK(defaultValues, currentDimensions)[8], <<0, 0, 4>>)
  /\ ikTargetPos = addVectors(snapped, <<0, 0, 4>>)

\* a step of the model is one frame of updateLoop
FrameStep == frames' = frames + 1

\* the frame of the step read no stick beyond the dead zone and no D-pad
\* direction (or no gamepad at all)
UnsteeredFrame == gamepad' = <<>> \/ ~steered(analogInputs(gamepad'[1]))

\* the frame of the step leaves the committed joints and the IK target alone
ArmStill == jointValues' = jointValues /\ ikTargetPos' = ikTargetPos

RisingEdge(k) == lastButtonState'[k] /\ ~lastButtonState[k]

\* C22: the control group is always 0, 1 or 2.  A step changes it only if it
\* is a frame with a gamepad whose button handling finds the IK mode off and
\* LB or RB going down; such a frame takes the group to (mode - 1 + 3) mod 3
\* for LB alone and to (mode + 1) mod 3 for RB alone, and a frame whose
\* button handling finds the IK mode on leaves the group whatever LB and RB do
C22_GroupSwitching ==
  [][ /\ controlMode \in {0, 1, 2} /\ controlMode' \in {0, 1, 2}
      /\ controlMode' # controlMode =>
           GamepadFrameStep /\ ~ikMode' /\ (RisingEdge(4) \/ RisingEdge(5))
      /\ (GamepadFrameStep /\ ~ikMode' /\ RisingEdge(4) /\ ~RisingEdge(5)) =>
           controlMode' = (controlMode - 1 + 3) % 3
      /\ (GamepadFrameStep /\ ~ikMode' /\ RisingEdge(5) /\ ~RisingEdge(4)) =>
           controlMode' = (controlMode + 1) % 3
    ]_vars

\* LB has taken the group from 0 round to 2 in one frame, and RB has taken it
\* on to 0 in the next
C22_Witness ==
  /\ frames = 2 /\ ~ikMode /\ controlMode = 0
  /\ Len(gamepad) = 1 /\ gamepad[1].pressed = {5} /\ gamepad[1].rt = 100
  /\ ~lastButtonState[4] /\ lastButtonState[5]
  /\ gripperValue = 5

\* Overlay joint readout: the name of joint idx (0-based) is shown as active
highlighted(mode, group, idx) ==
  ~mode /\ (\/ (group = 0 /\ idx < 3)
            \/ (group = 1 /\ idx >= 2 /\ idx <= 4)
            \/ (group = 2 /\ idx >= 4))

\* C23: a frame with a gamepad whose button handling leaves the IK mode off
\* changes the committed angle of no joint but those the overlay shows as
\* active for the control group the frame works with
C23_OnlyActiveJointsMove ==
  [][ (GamepadFrameStep /\ ~ikMode') =>
        \A idx \in 0..6 :
          jointValues'[idx + 1] # jointValues[idx + 1] =>
            highlighted(ikMode', controlMode', idx) ]_vars

\* the snapshot gp has every stick axis within the dead zone of 0.1 and no
\* D-pad direction pressed
AtRest(gp) ==
  /\ \A k \in 1..4 : Abs(gp.axes[k]) <= 10
  /\ gp.pressed \cap {12, 13, 14, 15} = {}

\* C24: a frame that starts in IK mode and reads a gamepad with every stick
\* axis within the dead zone and no D-pad direction pressed leaves the IK
\* target as it found it
C24_TargetKept ==
  [][ (GamepadFrameStep /\ ikMode /\ AtRest(gamepad'[1])) =>
        ikTargetPos' = ikTargetPos ]_vars

\* the target was dragged and a frame in IK mode has then read a gamepad whose
\* sticks are off centre within the dead zone: the joints have followed and
\* the target is where the drag put it
C24_Witness ==
  /\ frames = 1 /\ branch = "gamepad" /\ ikMode
  /\ hist.by = "drag"
  /\ AtRest(gamepad[1]) /\ gamepad[1].axes # <<0, 0, 0, 0>>
  /\ ikTargetPos = <<10, 150, 150>>
  /\ jointValues # defaultValues

\* C25: the IK target is never below the floor buffer: its height is at least
\* 0.05, whether the sticks, a snap to the tip or a drag moved it last
C25_TargetAboveFloor == ikTargetPos[2] >= 5

(***************************************************************************)
(* The gripper over many frames: the control loop with a gamepad whose     *)
(* triggers are held, for as many frames as take the gripper from closed   *)
(* to open and past.  With the left stick pushed forward in manual mode    *)
(* the shoulder tips the arm from the rest pose towards the floor, and     *)
(* from the second such frame on the proposal is rejected.                 *)
(***************************************************************************)
MaxTriggerFrames == 22

TriggerInputs ==
  { [Neutral EXCEPT !.rt = 100, !.axes = <<0, -100, 0, 0>>],
    [Neutral EXCEPT !.lt = 100, !.axes = <<0, -100, 0, 0>>],
    [Neutral EXCEPT !.lt = 100, !.rt = 60] }

TriggerFrame(gp) ==
  frames < MaxTriggerFrames /\ updateLoop(gp) /\ UNCHANGED sched

GripperNext == \E gp \in TriggerInputs : TriggerFrame(gp)
SpecGripper == Init /\ [][GripperNext]_vars

\* C26: the gripper value is within [0, 1]; every frame with a gamepad makes
\* it the old value plus 0.05 * (RT - LT), held within [0, 1], also when the
\* frame rejects its joint proposal for collision; no other step changes it
C26_GripperClamped ==
  [][ /\ 0 <= gripperValue' /\ gripperValue' <= 100
      /\ GamepadFrameStep =>
           gripperValue' =
             Min(100, Max(0, gripperValue
                               + (5 * (gamepad'[1].rt - gamepad'[1].lt)) \div 100))
      /\ ~GamepadFrameStep => gripperValue' = gripperValue ]_vars

\* the right trigger was held for more frames than open the gripper fully,
\* the last of them rejected for collision
C26_Witness ==
  /\ frames = MaxTriggerFrames /\ branch = "gamepad"
  /\ gripperValue = 100
  /\ isColliding

(***************************************************************************)
(* The scheduling of updateLoop.  The tasks of the page run one at a time: *)
(* an animation-frame callback (one run of updateLoop, which requests its  *)
(* successor), a gamepadconnected or gamepaddisconnected event, a render   *)
(* of App (which creates a new updateLoop when gamepadConnected has        *)
(* changed) and the Start/Stop effect of the latest updateLoop (cleanup of *)
(* the one before, then the request of the first frame).  A state update   *)
(* made by a task is rendered by a later one.  A pending callback is       *)
(* [id, loop]: the request id and the index in sched.closures of the       *)
(* updateLoop it will run.                                                 *)
(***************************************************************************)
MaxTasks == 7

\* cancelAnimationFrame that cancels nothing
cancelNothing(pending, id) == pending

\* cancelAnimationFrame(id)
cancelAnimationFrame(pending, id) == { c \in pending : c.id # id }

\* requestRef.current = requestAnimationFrame(updateLoop), for the updateLoop
\* of index loop
requested(s, pending, loop) ==
  [s EXCEPT !.pending = pending \cup {[id |-> s.nextId, loop |-> loop]},
            !.requestRef = s.nextId,
            !.nextId = s.nextId + 1,
            !.tasks = s.tasks + 1]

\* setGamepadConnected(value)
setGamepadConnected(s, value) == [s EXCEPT !.queued = <<value>>]

\* Start/Stop Loop: the effect of the latest updateLoop, after the cleanup of
\* the effect before it
StartStopEffect ==
  /\ sched.tasks < MaxTasks
  /\ sched.effect
  /\ sched' = [requested(sched, cancelAnimationFrame(sched.pending, sched.requestRef),
                         Len(sched.closures))
                 EXCEPT !.effect = FALSE]
  /\ UNCHANGED <<jointValues, gripperValue, controlMode, ikMode, ikTargetPos,
                 lastButtonState, isColliding, jointsConfig, proposedJoints,
                 passed, wristAdjusted, snapped, gamepad, hist, branch, frames,
                 col, fk, ik, ws, mem, ov, seg>>

\* the animation-frame callback c runs and finds the gamepad snapshot gp
CallbackWithGamepad(c, gp) ==
  /\ sched.tasks < MaxTasks
  /\ updateLoop(gp)
  /\ sched' = requested(IF ~sched.closures[c.loop]
                        THEN setGamepadConnected(sched, TRUE) ELSE sched,
                        sched.pending \ {c}, c.loop)

\* the animation-frame callback c runs and finds no gamepad
CallbackWithoutGamepad(c) ==
  /\ sched.tasks < MaxTasks
  /\ ~ikMode
  /\ updateLoopIdle
  /\ sched' = requested(IF sched.closures[c.loop]
                        THEN setGamepadConnected(sched, FALSE) ELSE sched,
                        sched.pending \ {c}, c.loop)

\* a gamepadconnected (TRUE) or gamepaddisconnected (FALSE) event reaches the
\* listener that the effect added
GamepadEvent(connected) ==
  /\ sched.tasks < MaxTasks
  /\ sched.requestRef # 0
  /\ sched' = [setGamepadConnected(sched, connected) EXCEPT !.tasks = sched.tasks + 1]
  /\ UNCHANGED <<jointValues, gripperValue, controlMode, ikMode, ikTargetPos,
                 lastButtonState, isColliding, jointsConfig, proposedJoints,
                 passed, wristAdjusted, snapped, gamepad, hist, branch, frames,
                 col, fk, ik, ws, mem, ov, seg>>

\* App is rendered with the queued gamepadConnected; useCallback creates a new
\* updateLoop if it has changed, and the effect is then to run again
Render ==
  /\ sched.tasks < MaxTasks
  /\ sched.queued # <<>>
  /\ ~sched.effect
  /\ sched' = IF sched.queued[1] # sched.gamepadConnected
              THEN [sched EXCEPT !.gamepadConnected = sched.queued[1],
                                 !.closures = Append(sched.closures, sched.queued[1]),
                                 !.effect = TRUE,
                                 !.queued = <<>>,
                                 !.tasks = sched.tasks + 1]
              ELSE [sched EXCEPT !.queued = <<>>, !.tasks = sched.tasks + 1]
  /\ UNCHANGED <<jointValues, gripperValue, controlMode, ikMode, ikTargetPos,
                 lastButtonState, isColliding, jointsConfig, proposedJoints,
                 passed, wristAdjusted, snapped, gamepad, hist, branch, frames,
                 col, fk, ik, ws, mem, ov, seg>>

LoopNext ==
  \/ StartStopEffect
  \/ \E c \in sched.pending : CallbackWithGamepad(c, Neutral)
  \/ \E c \in sched.pending : CallbackWithoutGamepad(c)
  \/ \E connected \in BOOLEAN : GamepadEvent(connected)
  \/ Render
SpecLoop == Init /\ [][LoopNext]_vars

\* C27: at most one animation-frame callback is pending, and it is the one
\* requestRef names; a run of updateLoop leaves exactly one pending, of the
\* updateLoop that ran; and when the effect of a new updateLoop has run, the
\* callback of the old one is cancelled and the only one pending is of the new
C27_OnePendingCallback ==
  [][ /\ Cardinality(sched'.pending) <= 1
      /\ \A c \in sched'.pending : c.id = sched'.requestRef
      /\ FrameStep =>
           \E c \in sched.pending :
             sched'.pending = {[id |-> sched'.requestRef, loop |-> c.loop]}
      /\ (sched.effect /\ ~sched'.effect) =>
           sched'.pending = {[id |-> sched'.requestRef, loop |-> Len(sched'.closures)]}
    ]_vars

\* updateLoop has been created three times (first render, gamepad found,
\* gamepad gone), the last effect has cancelled the callback of the second,
\* and frames have run
C27_Witness ==
  /\ Len(sched.closures) = 3
  /\ ~sched.effect
  /\ sched.pending = {[id |-> sched.requestRef, loop |-> 3]}
  /\ frames >= 2
====
